---- MODULE Spec2Model ----
(***************************************************************************)
(* ComfyAngel loop nodes (src/nodes/loop_nodes.py, src/utils/loop_utils.py) *)
(* as a state machine: the host graph (dynprompt) with its ephemeral nodes, *)
(* the node functions, and the graph fragments the loop controllers build.  *)
(***************************************************************************)
EXTENDS Integers, Sequences, FiniteSets, TLC

\* ---------------------------------------------------------------- bounds
\* longest iteration source
MaxLen == 3
\* the host stops running nodes once this many node ids are in use
MaxNodes == 40
\* number of contributions folded into one accumulator
MaxFold == 3
MaxWalk == 4
MaxCycle == 3

\* ------------------------------------------------------- program constants
MAX_SLOTS == 10
VALUE_OUTPUT_OFFSET == 5

\* ------------------------------------------------------------ Python values
\* Every Python value is a record with the same four fields: k the type,
\* n an integer payload, s a tensor shape, e the elements / payload.
Val(k, n, s, e) == [k |-> k, n |-> n, s |-> s, e |-> e]
None == Val("none", 0, <<>>, <<>>)
Raise == Val("raise", 0, <<>>, <<>>)
IntV(i) == Val("int", i, <<>>, <<>>)
StrV(i) == Val("str", i, <<>>, <<>>)
BoolV(b) == Val("bool", IF b THEN 1 ELSE 0, <<>>, <<>>)
ListV(xs) == Val("list", 0, <<>>, xs)
TupleV(xs) == Val("tuple", 0, <<>>, xs)
Tensor(shape, rows) == Val("tensor", 0, shape, rows)
Dict(index, acc1, acc2) == Val("dict", 0, <<>>, <<index, acc1, acc2>>)
Link(id, out) == ListV(<<StrV(id), IntV(out)>>)

IsNone(v) == v.k = "none"
IsRaise(v) == v.k = "raise"
IsTensor(v) == v.k = "tensor"
IsList(v) == v.k = "list"
Dim(t) == Len(t.s)
Truthy(v) == CASE v.k \in {"int", "bool"} -> v.n # 0
               [] v.k \in {"list", "tuple"} -> Len(v.e) > 0
               [] v.k = "none" -> FALSE
               [] OTHER -> TRUE

Min(a, b) == IF a < b THEN a ELSE b

\* F applied to the value of v, v being evaluated once
Let(v, F(_)) == CHOOSE r \in {F(x) : x \in {v}} : TRUE

RECURSIVE SumLead(_)
SumLead(ts) == IF ts = <<>> THEN 0 ELSE Head(ts).s[1] + SumLead(Tail(ts))

RECURSIVE Flatten(_)
Flatten(ts) == IF ts = <<>> THEN <<>> ELSE Head(ts).e \o Flatten(Tail(ts))

\* torch.cat(tensors, dim=0)
TorchCat(ts) ==
  IF ts = <<>> \/ \E i \in 1..Len(ts) : ~IsTensor(ts[i]) THEN Raise
  ELSE LET real == SelectSeq(ts, LAMBDA t : t.s # <<0>>)
       IN IF real = <<>> THEN Tensor(<<0>>, <<>>)
          ELSE IF \E i \in 1..Len(real) :
                    \/ Dim(real[i]) = 0
                    \/ Dim(real[i]) # Dim(real[1])
                    \/ Tail(real[i].s) # Tail(real[1].s)
               THEN Raise
               ELSE Tensor(<<SumLead(real)>> \o Tail(real[1].s), Flatten(real))

\* tensor.unsqueeze(0)
Unsqueeze(t) == Tensor(<<1>> \o t.s, t.e)

\* tensor[index:index+1] for index >= 0
SliceRow(t, index) ==
  IF index < t.s[1]
  THEN LET chunk == Len(t.e) \div t.s[1]
       IN Tensor(<<1>> \o Tail(t.s), SubSeq(t.e, index * chunk + 1, (index + 1) * chunk))
  ELSE Tensor(<<0>> \o Tail(t.s), <<>>)

\* --------------------------------------------------- src/utils/loop_utils.py
\* get_items_length without its None case: None counts as one item
get_items_length_NoneIsOne(items) ==
  CASE IsTensor(items) -> IF Dim(items) > 0 THEN items.s[1] ELSE 1
    [] items.k \in {"list", "tuple"} -> Len(items.e)
    [] OTHER -> 1

get_items_length(items) ==
  CASE IsNone(items) -> 0
    [] IsTensor(items) -> IF Dim(items) > 0 THEN items.s[1] ELSE 1
    [] items.k \in {"list", "tuple"} -> Len(items.e)
    [] OTHER -> 1

get_item_at_index(items, index) ==
  CASE IsNone(items) -> None
    [] IsTensor(items) -> IF Dim(items) = 0 THEN items ELSE SliceRow(items, index)
    [] items.k \in {"list", "tuple"} ->
         IF Len(items.e) = 0 THEN None
         ELSE IF index >= 0 /\ index < Len(items.e) THEN items.e[index + 1]
         ELSE IF index < 0 /\ index >= -Len(items.e) THEN items.e[Len(items.e) + index + 1]
         ELSE Raise
    [] OTHER -> items

\* accumulate_results with the operands the wrong way round
accumulate_results_Prepend(existing, new_item) ==
  IF IsNone(new_item) THEN existing
  ELSE IF IsNone(existing)
  THEN (IF IsTensor(new_item) THEN new_item ELSE ListV(<<new_item>>))
  ELSE IF IsTensor(existing) /\ IsTensor(new_item) THEN TorchCat(<<new_item, existing>>)
  ELSE IF IsList(existing) THEN ListV(<<new_item>> \o existing.e)
  ELSE ListV(<<new_item, existing>>)

accumulate_results(existing, new_item) ==
  IF IsNone(new_item) THEN existing
  ELSE IF IsNone(existing)
  THEN (IF IsTensor(new_item) THEN new_item ELSE ListV(<<new_item>>))
  ELSE IF IsTensor(existing) /\ IsTensor(new_item)
  THEN (IF Dim(existing) # Dim(new_item)
        THEN (IF Dim(existing) = 3 /\ Dim(new_item) = 4
              THEN TorchCat(<<Unsqueeze(existing), new_item>>)
              ELSE IF Dim(existing) = 4 /\ Dim(new_item) = 3
              THEN TorchCat(<<existing, Unsqueeze(new_item)>>)
              ELSE TorchCat(<<existing, new_item>>))
        ELSE TorchCat(<<existing, new_item>>))
  ELSE IF IsList(existing) /\ Len(existing.e) > 0
  THEN (IF IsTensor(existing.e[1]) /\ IsTensor(new_item)
        THEN LET stacked == TorchCat(existing.e)
                 both == IF IsRaise(stacked) THEN Raise ELSE TorchCat(<<stacked, new_item>>)
             IN IF IsRaise(both) THEN ListV(existing.e \o <<new_item>>) ELSE both
        ELSE ListV(existing.e \o <<new_item>>))
  ELSE IF IsTensor(existing) THEN ListV(<<existing, new_item>>)
  ELSE IF IsList(existing) THEN ListV(existing.e \o <<new_item>>)
  ELSE ListV(<<existing, new_item>>)

\* --------------------------------------------------- src/nodes/loop_nodes.py
\* comfy_execution.graph_utils.is_link, imported at loop_nodes.py:22
is_link(v) ==
  /\ IsList(v)
  /\ Len(v.e) = 2
  /\ v.e[1].k = "str"
  /\ v.e[2].k \in {"int", "bool"}

\* "x = x[0] if x else None" for a list x, x otherwise
FirstOrNone(v) == IF IsList(v) THEN (IF Truthy(v) THEN v.e[1] ELSE None) ELSE v

\* "items = items[0]" when items is a list of exactly one tensor
UnwrapItems(items) ==
  IF IsList(items) /\ Len(items.e) = 1 /\ IsTensor(items.e[1]) THEN items.e[1] ELSE items

\* int(x) raises for anything that is not a number
CanInt(v) == v.k \in {"int", "bool"}

\* A node function returns the tuple of its outputs, or <<Raise>> when it raises.
Raised(out) == out = <<Raise>>

\* loop_start that reports the index it looked the item up at
LoopStartSimple_loop_start_ReportsClamped(items_in, index_in, acc1_in, acc2_in) ==
  LET items == UnwrapItems(items_in)
      ix == FirstOrNone(index_in)
      index == IF IsNone(ix) THEN 0 ELSE ix.n
      total == get_items_length(items)
      item == get_item_at_index(items, Min(index, total - 1))
  IN IF (~IsNone(ix) /\ ~CanInt(ix)) \/ total = 0 \/ IsRaise(item) THEN <<Raise>>
     ELSE <<Dict(IntV(Min(index, total - 1)), FirstOrNone(acc1_in), FirstOrNone(acc2_in)), item>>

LoopStartSimple_loop_start(items_in, index_in, acc1_in, acc2_in) ==
  LET items == UnwrapItems(items_in)
      ix == FirstOrNone(index_in)
      accumulated1 == FirstOrNone(acc1_in)
      accumulated2 == FirstOrNone(acc2_in)
  IN IF ~IsNone(ix) /\ ~CanInt(ix) THEN <<Raise>>
     ELSE LET index == IF IsNone(ix) THEN 0 ELSE ix.n
              total == get_items_length(items)
          IN IF total = 0 THEN <<Raise>>
             ELSE LET item == get_item_at_index(items, Min(index, total - 1))
                  IN IF IsRaise(item) THEN <<Raise>>
                     ELSE <<Dict(IntV(index), accumulated1, accumulated2), item>>

\* "val[0] if len(val) == 1, None if len(val) == 0" for a list val
UnwrapValue(val) ==
  IF IsList(val) /\ Len(val.e) = 1 THEN val.e[1]
  ELSE IF IsList(val) /\ Len(val.e) = 0 THEN None
  ELSE val

LOOP_FLOW == StrV(-1)

\* loop_start with is_last computed as index >= total
LoopStartAdvanced_loop_start_LateLast(items_in, index_in, values_in) ==
  LET items == UnwrapItems(items_in)
      ix == FirstOrNone(index_in)
      index == IF IsNone(ix) THEN 0 ELSE ix.n
      total == get_items_length(items)
      item == get_item_at_index(items, Min(index, total - 1))
  IN IF (~IsNone(ix) /\ ~CanInt(ix)) \/ total = 0 \/ IsRaise(item) THEN <<Raise>>
     ELSE <<LOOP_FLOW, item, IntV(index), IntV(total), BoolV(index >= total)>> \o
          [i \in 1..MAX_SLOTS |-> UnwrapValue(values_in[i])]

\* values_in: the sequence of the MAX_SLOTS initial_value{i} arguments
LoopStartAdvanced_loop_start(items_in, index_in, values_in) ==
  LET items == UnwrapItems(items_in)
      ix == FirstOrNone(index_in)
  IN IF ~IsNone(ix) /\ ~CanInt(ix) THEN <<Raise>>
     ELSE LET index == IF IsNone(ix) THEN 0 ELSE ix.n
              total == get_items_length(items)
          IN IF total = 0 THEN <<Raise>>
             ELSE LET item == get_item_at_index(items, Min(index, total - 1))
                      is_last == index >= total - 1
                      values == [i \in 1..MAX_SLOTS |-> UnwrapValue(values_in[i])]
                  IN IF IsRaise(item) THEN <<Raise>>
                     ELSE <<LOOP_FLOW, item, IntV(index), IntV(total), BoolV(is_last)>> \o values

\* a length node that measures the list it receives without unwrapping it
GetLength_get_length_NoUnwrap(items_in) == <<IntV(get_items_length(items_in))>>

GetLength_get_length(items_in) ==
  LET items == IF IsList(items_in) THEN UnwrapItems(items_in) ELSE items_in
  IN <<IntV(get_items_length(items))>>

\* Strings are numbered tokens, so that node ids and string data share one
\* type: StrV(i) for i >= 1 is the decimal string of i, the id of node i.
ADD == StrV(-10)
SUBTRACT == StrV(-11)
MULTIPLY == StrV(-12)
DIVIDE == StrV(-13)
MODULO == StrV(-14)
EQ == StrV(-20)
NE == StrV(-21)
LT == StrV(-22)
GT == StrV(-23)
LE == StrV(-24)
GE == StrV(-25)

MathInt_math_op(a, b, operation) ==
  IF ~CanInt(a) \/ ~CanInt(b) THEN <<Raise>>
  ELSE CASE operation = ADD -> <<IntV(a.n + b.n)>>
         [] operation = SUBTRACT -> <<IntV(a.n - b.n)>>
         [] operation = MULTIPLY -> <<IntV(a.n * b.n)>>
         [] operation = DIVIDE -> <<IntV(IF b.n # 0 THEN a.n \div b.n ELSE 0)>>
         [] operation = MODULO -> <<IntV(IF b.n # 0 THEN a.n % b.n ELSE 0)>>
         [] OTHER -> <<Raise>>

\* compare with "less than" taken as "less than or equal"
Compare_compare_LtIsLe(a, b, comparison) ==
  IF comparison \in {EQ, NE}
  THEN <<BoolV((a = b) <=> (comparison = EQ))>>
  ELSE IF ~CanInt(a) \/ ~CanInt(b) THEN <<Raise>>
  ELSE CASE comparison \in {LT, LE} -> <<BoolV(a.n <= b.n)>>
         [] comparison \in {GT, GE} -> <<BoolV(a.n >= b.n)>>
         [] OTHER -> <<Raise>>

Compare_compare(a, b, comparison) ==
  IF comparison \in {EQ, NE}
  THEN <<BoolV((a = b) <=> (comparison = EQ))>>
  ELSE IF ~CanInt(a) \/ ~CanInt(b) THEN <<Raise>>
  ELSE CASE comparison = LT -> <<BoolV(a.n < b.n)>>
         [] comparison = GT -> <<BoolV(a.n > b.n)>>
         [] comparison = LE -> <<BoolV(a.n <= b.n)>>
         [] comparison = GE -> <<BoolV(a.n >= b.n)>>
         [] OTHER -> <<Raise>>

\* accumulate that passes a None new_item on instead of keeping existing
Accumulate_accumulate_DropsExisting(existing, new_item) ==
  IF IsNone(new_item) THEN <<new_item>>
  ELSE <<accumulate_results(existing, new_item)>>

Accumulate_accumulate(existing, new_item) ==
  IF IsNone(new_item) THEN <<existing>>
  ELSE <<accumulate_results(existing, new_item)>>

\* an extractor that reports the default index 0 whatever the flow state holds
FlowStateExtractor_extract_DefaultIndex(flow_state) ==
  IF flow_state.k = "dict" THEN <<IntV(0), flow_state.e[2], flow_state.e[3]>>
  ELSE <<IntV(0), None, None>>

FlowStateExtractor_extract(flow_state) ==
  IF flow_state.k = "dict"
  THEN (IF CanInt(flow_state.e[1])
        THEN <<IntV(flow_state.e[1].n), flow_state.e[2], flow_state.e[3]>>
        ELSE <<Raise>>)
  ELSE <<IntV(0), None, None>>

\* ------------------------------------------------------------ graph nodes
\* A node of the host graph or of a GraphBuilder fragment: its class_type,
\* its inputs (name -> literal or link) and the id it is displayed as
\* (0: no override_display_id).
Node(class_type, inputs) == [class_type |-> class_type, inputs |-> inputs, display |-> 0]

NoInputs == [k \in {} |-> None]

\* Node.set_input(key, value): a None value removes the key
set_input(inputs, key, value) ==
  IF IsNone(value) THEN [k \in DOMAIN inputs \ {key} |-> inputs[k]]
  ELSE (key :> value) @@ inputs

initial_value == <<"initial_value0", "initial_value1", "initial_value2", "initial_value3",
                   "initial_value4", "initial_value5", "initial_value6", "initial_value7",
                   "initial_value8", "initial_value9">>

result == <<"result0", "result1", "result2", "result3", "result4",
            "result5", "result6", "result7", "result8", "result9">>

\* the order in which the inputs of a node are iterated
InputNames == <<"items", "_index", "_accumulated1", "_accumulated2">> \o initial_value \o
              <<"flow", "condition", "next_index", "accumulated1", "accumulated2">> \o result \o
              <<"flow_state", "a", "b", "operation", "comparison", "existing", "new_item", "x">>

InputsOf(node) == SelectSeq(InputNames, LAMBDA k : k \in DOMAIN node.inputs)

Get(inputs, key) == IF key \in DOMAIN inputs THEN inputs[key] ELSE None

\* dynprompt.get_display_node_id: follow the display ids of ephemeral nodes
RECURSIVE get_display_node_id(_, _)
get_display_node_id(dynprompt, node_id) ==
  IF node_id \in DOMAIN dynprompt /\ dynprompt[node_id].display # 0
     /\ dynprompt[node_id].display # node_id
  THEN get_display_node_id(dynprompt, dynprompt[node_id].display)
  ELSE node_id

\* "LoopEnd" in class_type (which "WhileLoopEnd" in class_type implies)
IsLoopEndClass(class_type) ==
  class_type \in {"ComfyAngel_LoopEndSimple", "ComfyAngel_LoopEndAdvanced",
                  "ComfyAngel_WhileLoopEndSimple", "ComfyAngel_WhileLoopEndAdvanced"}

\* The state of one walk: upstream (parent id -> list of child ids),
\* parent_ids (a list) and whether dynprompt.get_node raised.
NewWalk == [upstream |-> [p \in {} |-> <<>>], parent_ids |-> <<>>, err |-> FALSE]

RECURSIVE explore_dependencies(_, _, _), ExploreInputs(_, _, _, _)
RECURSIVE ExploreInputs_StopsAtLoopEnd(_, _, _, _)
explore_dependencies(node_id, dynprompt, walk) ==
  IF walk.err THEN walk
  ELSE IF node_id \notin DOMAIN dynprompt THEN [walk EXCEPT !.err = TRUE]
  ELSE ExploreInputs(node_id, dynprompt, InputsOf(dynprompt[node_id]), walk)

\* a walk that treats a producer of a Loop End class as a boundary: the
\* producer is recorded but its inputs are not explored
ExploreInputs_StopsAtLoopEnd(node_id, dynprompt, ks, walk) ==
  IF ks = <<>> \/ walk.err THEN walk
  ELSE LET v == dynprompt[node_id].inputs[Head(ks)]
       IN IF ~is_link(v) THEN ExploreInputs(node_id, dynprompt, Tail(ks), walk)
          ELSE LET parent_id == v.e[1].n
                   display_id == get_display_node_id(dynprompt, parent_id)
               IN IF display_id \notin DOMAIN dynprompt THEN [walk EXCEPT !.err = TRUE]
                  ELSE LET boundary == IsLoopEndClass(dynprompt[display_id].class_type)
                           explored(w) ==
                             IF parent_id \in DOMAIN w.upstream THEN w
                             ELSE IF boundary THEN [w EXCEPT !.upstream = (parent_id :> <<>>) @@ @]
                             ELSE Let([w EXCEPT !.upstream = (parent_id :> <<>>) @@ @],
                                      LAMBDA w0 : explore_dependencies(parent_id, dynprompt, w0))
                           appended(w2) ==
                             IF w2.err THEN w2
                             ELSE [w2 EXCEPT !.upstream[parent_id] = Append(@, node_id)]
                           rest(w3) == ExploreInputs(node_id, dynprompt, Tail(ks), w3)
                       IN Let(Let(Let(walk, explored), appended), rest)

ExploreInputs(node_id, dynprompt, ks, walk) ==
  IF ks = <<>> \/ walk.err THEN walk
  ELSE LET v == dynprompt[node_id].inputs[Head(ks)]
       IN IF ~is_link(v) THEN ExploreInputs(node_id, dynprompt, Tail(ks), walk)
          ELSE LET parent_id == v.e[1].n
                   display_id == get_display_node_id(dynprompt, parent_id)
               IN IF display_id \notin DOMAIN dynprompt THEN [walk EXCEPT !.err = TRUE]
                  ELSE LET w1 == IF ~IsLoopEndClass(dynprompt[display_id].class_type)
                                 THEN [walk EXCEPT !.parent_ids = Append(@, display_id)]
                                 ELSE walk
                           explored(w) ==
                             IF parent_id \notin DOMAIN w.upstream
                             THEN Let([w EXCEPT !.upstream = (parent_id :> <<>>) @@ @],
                                      LAMBDA w0 : explore_dependencies(parent_id, dynprompt, w0))
                             ELSE w
                           appended(w2) ==
                             IF w2.err THEN w2
                             ELSE [w2 EXCEPT !.upstream[parent_id] = Append(@, node_id)]
                           rest(w3) == ExploreInputs(node_id, dynprompt, Tail(ks), w3)
                       IN Let(Let(Let(w1, explored), appended), rest)

\* a collection that keeps every node the backward walk visited
collect_contained_AllVisited(node_id, upstream, contained) == contained \cup DOMAIN upstream

RECURSIVE collect_contained(_, _, _), CollectChildren(_, _, _)
collect_contained(node_id, upstream, contained) ==
  IF node_id \notin DOMAIN upstream THEN contained
  ELSE CollectChildren(upstream[node_id], upstream, contained)

CollectChildren(children, upstream, contained) ==
  IF children = <<>> THEN contained
  ELSE LET child_id == Head(children)
           rest(c) == CollectChildren(Tail(children), upstream, c)
       IN IF child_id \in contained THEN rest(contained)
          ELSE Let(collect_contained(child_id, upstream, contained \cup {child_id}), rest)

\* lines 254-262 of while_end: the closure of one controller call
Closure(dynprompt, unique_id, loop_start_id) ==
  LET contained(walk) ==
        collect_contained(loop_start_id, walk.upstream, {}) \cup {unique_id, loop_start_id}
  IN Let(explore_dependencies(unique_id, dynprompt, NewWalk), contained)

\* ------------------------------------------------------ the program state
VARIABLES
  HAS_GRAPH_UTILS,  \* loop_nodes.py:24/26, fixed when the module is imported
  source,           \* the iteration source the Source node delivers
  graph,            \* dynprompt: node id -> node, ephemeral nodes included
  outputs,          \* node id -> tuple of output values, for executed nodes
  pending,          \* node id -> result links of a node that returned "expand"
  status,           \* "running" or "error" (a node raised: the run is aborted)
  nextId,           \* next fresh node id
  lsLog,            \* the Loop Start calls: [id, out]
  leLog,            \* the Loop End calls: [id, raised, nodes]
  ctlLog,           \* the While Loop End calls: [id, condition, next_index, accs, result, nodes]
  accLog            \* the Accumulate calls: [existing, new_item, out]

vars == <<HAS_GRAPH_UTILS, source, graph, outputs, pending, status, nextId,
          lsLog, leLog, ctlLog, accLog>>

\* What a node function hands back to the host: it raised, or it returned a
\* tuple of values, or it returned {"result": links, "expand": fragment}.
Failure == [raise |-> TRUE, expanded |-> FALSE, result |-> <<>>, expand |-> <<>>]
Returned(out) == IF Raised(out) THEN Failure
                 ELSE [raise |-> FALSE, expanded |-> FALSE, result |-> out, expand |-> <<>>]
\* an expansion whose output references are in reverse slot order
Expanded_Reversed(links, fragment) ==
  [raise |-> FALSE, expanded |-> TRUE,
   result |-> [i \in 1..Len(links) |-> links[Len(links) + 1 - i]], expand |-> fragment]

Expanded(links, fragment) ==
  [raise |-> FALSE, expanded |-> TRUE, result |-> links, expand |-> fragment]

\* a check that never fires
GraphUtilsAssumed == FALSE

\* "if not HAS_GRAPH_UTILS: raise RuntimeError", first statement of loop_end
NoGraphUtils == ~HAS_GRAPH_UTILS

\* a check that accepts the Loop Start of either variant
NotALoopStart(loop_start_node, class_type) ==
  loop_start_node.class_type \notin
    {"ComfyAngel_LoopStartSimple", "ComfyAngel_LoopStartAdvanced"}

\* "if loop_start_node['class_type'] != ...: raise ValueError"
WrongLoopStart(loop_start_node, class_type) == loop_start_node.class_type # class_type

LoopEndSimple_loop_end(flow, result1, result2, dynprompt, unique_id, base) ==
  IF NoGraphUtils THEN Failure
  ELSE IF ~is_link(flow) \/ flow.e[1].n \notin DOMAIN dynprompt THEN Failure
  ELSE LET loop_start_id == flow.e[1].n
           loop_start_node == dynprompt[loop_start_id]
       IN IF WrongLoopStart(loop_start_node, "ComfyAngel_LoopStartSimple") THEN Failure
          ELSE LET items_input == Get(loop_start_node.inputs, "items")
                   total_node == base
                   state_extractor == base + 1
                   add_node == base + 2
                   cond_node == base + 3
                   acc1_node == base + 4
                   acc2_node == IF IsNone(result1) THEN base + 4 ELSE base + 5
                   while_end == IF IsNone(result2) THEN acc2_node ELSE acc2_node + 1
                   current_index == Link(state_extractor, 0)
                   prev_acc1 == Link(state_extractor, 1)
                   prev_acc2 == Link(state_extractor, 2)
                   next_index == Link(add_node, 0)
                   accumulated1 == IF ~IsNone(result1) THEN Link(acc1_node, 0) ELSE prev_acc1
                   accumulated2 == IF ~IsNone(result2) THEN Link(acc2_node, 0) ELSE prev_acc2
                   fragment ==
                     (total_node :> Node("ComfyAngel_GetLength", "items" :> items_input)) @@
                     (state_extractor :> Node("ComfyAngel_FlowStateExtractor",
                                              "flow_state" :> Link(loop_start_id, 0))) @@
                     (add_node :> Node("ComfyAngel_MathInt",
                         ("operation" :> ADD) @@ ("a" :> current_index) @@ ("b" :> IntV(1)))) @@
                     (cond_node :> Node("ComfyAngel_Compare",
                         ("a" :> next_index) @@ ("b" :> Link(total_node, 0)) @@
                         ("comparison" :> LT))) @@
                     (IF ~IsNone(result1)
                      THEN acc1_node :> Node("ComfyAngel_Accumulate",
                             ("existing" :> prev_acc1) @@ ("new_item" :> result1))
                      ELSE <<>>) @@
                     (IF ~IsNone(result2)
                      THEN acc2_node :> Node("ComfyAngel_Accumulate",
                             ("existing" :> prev_acc2) @@ ("new_item" :> result2))
                      ELSE <<>>) @@
                     (while_end :> Node("ComfyAngel_WhileLoopEndSimple",
                         ("flow" :> flow) @@ ("condition" :> Link(cond_node, 0)) @@
                         ("next_index" :> next_index) @@ ("accumulated1" :> accumulated1) @@
                         ("accumulated2" :> accumulated2)))
               IN Expanded(<<Link(while_end, 0), Link(while_end, 1)>>, fragment)

\* The id GraphBuilder gives the clone of node_id ("Recurse" for the
\* controller itself): fresh, one per closure node.
CloneId(base, contained, node_id) == base + Cardinality({c \in contained : c < node_id})

\* lines 264-277 raise when get_node fails or when lookup_node finds no clone:
\* the controller's clone is registered as "Recurse", not under its own id
CloneFails(dynprompt, contained, unique_id) ==
  \/ \E node_id \in contained : node_id \notin DOMAIN dynprompt
  \/ \E node_id \in contained \cap DOMAIN dynprompt :
       \E k \in DOMAIN dynprompt[node_id].inputs :
          LET v == dynprompt[node_id].inputs[k]
          IN is_link(v) /\ v.e[1].n = unique_id

\* clones whose inputs are all copied from the original, links included
CloneInputs_NotRewired(original_node, contained, base) == original_node.inputs

\* lines 269-277: the inputs of one clone
CloneInputs(original_node, contained, base) ==
  LET rewired(k) ==
        LET v == original_node.inputs[k]
        IN IF is_link(v) /\ v.e[1].n \in contained
           THEN ListV(<<StrV(CloneId(base, contained, v.e[1].n)), v.e[2]>>)
           ELSE v
  IN [k \in {j \in DOMAIN original_node.inputs : ~IsNone(rewired(j))} |-> rewired(k)]

\* lines 264-277: one clone per closure node, displayed as its original
CloneNodes(dynprompt, contained, base) ==
  [cid \in {CloneId(base, contained, c) : c \in contained} |->
     LET node_id == CHOOSE c \in contained : CloneId(base, contained, c) = cid
         original_node == dynprompt[node_id]
     IN [class_type |-> original_node.class_type,
         inputs |-> CloneInputs(original_node, contained, base),
         display |-> node_id]]

\* lines 264-288, once the closure is known
SimpleFragment(contained, next_index, accumulated1, accumulated2, dynprompt, unique_id, loop_start_id, base) ==
  IF CloneFails(dynprompt, contained, unique_id) THEN Failure
  ELSE LET clones == CloneNodes(dynprompt, contained, base)
           new_loop_start == CloneId(base, contained, loop_start_id)
           my_clone == CloneId(base, contained, unique_id)
           fragment ==
             [clones EXCEPT ![new_loop_start].inputs =
                set_input(set_input(set_input(@, "_index", next_index),
                                    "_accumulated1", accumulated1),
                          "_accumulated2", accumulated2)]
       IN Expanded(<<Link(my_clone, 0), Link(my_clone, 1)>>, fragment)

WhileLoopEndSimple_while_end(flow, condition, next_index, accumulated1, accumulated2, dynprompt, unique_id, base) ==
  IF ~Truthy(condition) THEN Returned(<<accumulated1, accumulated2>>)
  ELSE IF ~is_link(flow) THEN Failure
  ELSE LET loop_start_id == flow.e[1].n
           build(contained) ==
             SimpleFragment(contained, next_index, accumulated1, accumulated2,
                            dynprompt, unique_id, loop_start_id, base)
           walked(walk) ==
             IF walk.err THEN Failure
             ELSE Let(collect_contained(loop_start_id, walk.upstream, {})
                        \cup {unique_id, loop_start_id}, build)
       IN Let(explore_dependencies(unique_id, dynprompt, NewWalk), walked)

\* results: the sequence of the MAX_SLOTS result{i} raw links (None: unconnected)
LoopEndAdvanced_loop_end(flow, results, dynprompt, unique_id, base) ==
  IF NoGraphUtils THEN Failure
  ELSE IF ~is_link(flow) \/ flow.e[1].n \notin DOMAIN dynprompt THEN Failure
  ELSE LET loop_start_id == flow.e[1].n
           loop_start_node == dynprompt[loop_start_id]
       IN IF WrongLoopStart(loop_start_node, "ComfyAngel_LoopStartAdvanced") THEN Failure
          ELSE LET items_input == Get(loop_start_node.inputs, "items")
                   total_node == base
                   add_node == base + 1
                   cond_node == base + 2
                   connected == {i \in 1..MAX_SLOTS : ~IsNone(results[i])}
                   acc_node(i) == base + 3 + Cardinality({j \in connected : j < i})
                   while_end == base + 3 + Cardinality(connected)
                   next_index == Link(add_node, 0)
                   prev_value(i) == Link(loop_start_id, VALUE_OUTPUT_OFFSET + (i - 1))
                   accumulated ==
                     [k \in {initial_value[i] : i \in 1..MAX_SLOTS} |->
                        LET i == CHOOSE j \in 1..MAX_SLOTS : initial_value[j] = k
                        IN IF i \in connected THEN Link(acc_node(i), 0) ELSE prev_value(i)]
                   fragment ==
                     (total_node :> Node("ComfyAngel_GetLength", "items" :> items_input)) @@
                     (add_node :> Node("ComfyAngel_MathInt",
                         ("operation" :> ADD) @@ ("a" :> Link(loop_start_id, 2)) @@
                         ("b" :> IntV(1)))) @@
                     (cond_node :> Node("ComfyAngel_Compare",
                         ("a" :> next_index) @@ ("b" :> Link(total_node, 0)) @@
                         ("comparison" :> LT))) @@
                     [a \in {acc_node(i) : i \in connected} |->
                        LET i == CHOOSE j \in connected : acc_node(j) = a
                        IN Node("ComfyAngel_Accumulate",
                                ("existing" :> prev_value(i)) @@ ("new_item" :> results[i]))] @@
                     (while_end :> Node("ComfyAngel_WhileLoopEndAdvanced",
                         ("flow" :> flow) @@ ("condition" :> Link(cond_node, 0)) @@
                         ("next_index" :> next_index) @@ accumulated))
               IN Expanded([i \in 1..MAX_SLOTS |-> Link(while_end, i - 1)], fragment)

\* a cloned Loop Start that keeps the initial values of the original
SetInitialValues_KeepsOriginal(inputs, values, i) == inputs

RECURSIVE SetInitialValues(_, _, _)
SetInitialValues(inputs, values, i) ==
  IF i > MAX_SLOTS THEN inputs
  ELSE SetInitialValues(set_input(inputs, initial_value[i], values[i]), values, i + 1)

\* lines 519-543, once the closure is known
AdvancedFragment(contained, next_index, values_in, dynprompt, unique_id, loop_start_id, base) ==
  IF CloneFails(dynprompt, contained, unique_id) THEN Failure
  ELSE LET clones == CloneNodes(dynprompt, contained, base)
           new_loop_start == CloneId(base, contained, loop_start_id)
           my_clone == CloneId(base, contained, unique_id)
           fragment ==
             [clones EXCEPT ![new_loop_start].inputs =
                SetInitialValues(set_input(@, "_index", next_index), values_in, 1)]
       IN Expanded([i \in 1..MAX_SLOTS |-> Link(my_clone, i - 1)], fragment)

\* values_in: the sequence of the MAX_SLOTS initial_value{i} arguments
WhileLoopEndAdvanced_while_end(flow, condition, next_index, values_in, dynprompt, unique_id, base) ==
  IF ~Truthy(condition) THEN Returned(values_in)
  ELSE IF ~is_link(flow) THEN Failure
  ELSE LET loop_start_id == flow.e[1].n
           build(contained) ==
             AdvancedFragment(contained, next_index, values_in,
                              dynprompt, unique_id, loop_start_id, base)
           walked(walk) ==
             IF walk.err THEN Failure
             ELSE Let(collect_contained(loop_start_id, walk.upstream, {})
                        \cup {unique_id, loop_start_id}, build)
       IN Let(explore_dependencies(unique_id, dynprompt, NewWalk), walked)

\* ------------------------------------------------------------------ the host
\* INPUT_TYPES: the inputs declared {"rawLink": True} receive the link itself
RawLink(class_type, k) ==
  \/ /\ class_type \in {"ComfyAngel_LoopEndSimple", "ComfyAngel_LoopEndAdvanced",
                        "ComfyAngel_WhileLoopEndSimple", "ComfyAngel_WhileLoopEndAdvanced"}
     /\ k = "flow"
  \/ class_type = "ComfyAngel_LoopEndSimple" /\ k \in {"result1", "result2"}
  \/ class_type = "ComfyAngel_LoopEndAdvanced" /\ k \in {result[i] : i \in 1..MAX_SLOTS}

\* INPUT_IS_LIST = True: every argument arrives as a list
InputIsList(class_type) ==
  class_type \in {"ComfyAngel_LoopStartSimple", "ComfyAngel_LoopStartAdvanced",
                  "ComfyAngel_GetLength"}

LinkInputs(n) == {k \in DOMAIN graph[n].inputs : is_link(graph[n].inputs[k])}

\* The host runs a node once, after the producers of all its links.
Ready(n) ==
  /\ status = "running"
  /\ n \notin DOMAIN outputs
  /\ n \notin DOMAIN pending
  /\ \A k \in LinkInputs(n) :
       LET p == graph[n].inputs[k].e[1].n
       IN p \in DOMAIN graph => p \in DOMAIN outputs

\* A link the host cannot resolve: no such node, or no such output.
BadLink(n) ==
  \E k \in LinkInputs(n) :
     LET v == graph[n].inputs[k]
         p == v.e[1].n
     IN IF p \notin DOMAIN graph THEN TRUE
        ELSE IF RawLink(graph[n].class_type, k) THEN FALSE
        ELSE v.e[2].n < 0 \/ v.e[2].n >= Len(outputs[p])

\* The argument the host passes for input k of node n (None: not supplied).
Arg(n, k) ==
  LET class_type == graph[n].class_type
      v == Get(graph[n].inputs, k)
  IN IF k \notin DOMAIN graph[n].inputs THEN None
     ELSE IF RawLink(class_type, k) THEN v
     ELSE IF is_link(v)
     THEN LET p == v.e[1].n
              val == outputs[p][v.e[2].n + 1]
          IN IF InputIsList(class_type) /\ graph[p].class_type # "Source"
             THEN ListV(<<val>>) ELSE val
     ELSE IF InputIsList(class_type) THEN ListV(<<v>>) ELSE v

\* The host takes what the node function handed back: it aborts the run, or
\* records the outputs, or adds the fragment's nodes to the graph and keeps
\* the result links until the fragment has run.
Finish(n, res) ==
  /\ status' = IF res.raise THEN "error" ELSE status
  /\ outputs' = IF ~res.raise /\ ~res.expanded THEN (n :> res.result) @@ outputs ELSE outputs
  /\ pending' = IF res.expanded THEN (n :> res.result) @@ pending ELSE pending
  /\ graph' = IF res.expanded
              THEN [id \in DOMAIN res.expand |->
                      IF res.expand[id].display = 0
                      THEN [res.expand[id] EXCEPT !.display = n]
                      ELSE res.expand[id]] @@ graph
              ELSE graph
  /\ nextId' = IF res.expanded THEN nextId + Cardinality(DOMAIN res.expand) ELSE nextId

Exec(n, class_types) ==
  /\ nextId <= MaxNodes
  /\ n \in DOMAIN graph
  /\ graph[n].class_type \in class_types
  /\ Ready(n)

\* ------------------------------------------------------------ initial graphs
\* Item values: the number 0 and the string "a".
Atoms == {IntV(0), StrV(-2)}

RECURSIVE SeqsUpTo(_, _)
SeqsUpTo(S, n) ==
  IF n = 0 THEN {<<>>}
  ELSE LET shorter == SeqsUpTo(S, n - 1)
       IN shorter \cup {Append(q, x) : q \in {r \in shorter : Len(r) = n - 1}, x \in S}

\* a batch of n rows, each row of 2 values
Batch(n) == Tensor(<<n, 2>>, [i \in 1..n |-> IntV(100 + i)])

\* The items argument as Loop Start and Get Length receive it.
Sources ==
  {ListV(q) : q \in SeqsUpTo(Atoms, MaxLen)}
    \cup {ListV(<<Batch(n)>>) : n \in 0..MaxLen}
    \cup {None, TupleV(<<>>), TupleV(<<IntV(0), StrV(-2)>>), Batch(2), StrV(-2),
          \* the string "1" is also the id of node 1
          ListV(<<StrV(1), IntV(0), StrV(-2)>>)}

SOURCE == 1
LOOP_START == 2
BODY == 3
LOOP_END == 4

\* wiring of the two result inputs that vary: unconnected, from the body
\* node, or (second slot) straight from Loop Start's item output
Wirings == {<<None, None>>, <<Link(BODY, 0), None>>, <<Link(BODY, 0), Link(LOOP_START, 1)>>}

BodyClasses == {"Body_Item", "Body_None", "Body_Drop"}

SimpleGraph(flow_from, body, wiring) ==
  (SOURCE :> Node("Source", NoInputs)) @@
  (LOOP_START :> Node("ComfyAngel_LoopStartSimple", "items" :> Link(SOURCE, 0))) @@
  (BODY :> Node(body, "x" :> Link(LOOP_START, 1))) @@
  (LOOP_END :> Node("ComfyAngel_LoopEndSimple",
      set_input(set_input("flow" :> Link(flow_from, 0), "result1", wiring[1]),
                "result2", wiring[2])))

AdvancedGraph(flow_from, body, wiring, init) ==
  (SOURCE :> Node("Source", NoInputs)) @@
  (LOOP_START :> Node("ComfyAngel_LoopStartAdvanced",
      set_input(set_input("items" :> Link(SOURCE, 0), "initial_value0", init[1]),
                "initial_value1", init[2]))) @@
  (BODY :> Node(body, "x" :> Link(LOOP_START, 1))) @@
  (LOOP_END :> Node("ComfyAngel_LoopEndAdvanced",
      set_input(set_input("flow" :> Link(flow_from, 0), "result0", wiring[1]),
                "result1", wiring[2])))

\* a Loop End wired to the Loop Start of the other variant
MixedGraph(loop_start_class, loop_end_class) ==
  (SOURCE :> Node("Source", NoInputs)) @@
  (LOOP_START :> Node(loop_start_class, "items" :> Link(SOURCE, 0))) @@
  (BODY :> Node("Body_Item", "x" :> Link(LOOP_START, 1))) @@
  (LOOP_END :> Node(loop_end_class,
      ("flow" :> Link(LOOP_START, 0)) @@ ("result1" :> Link(BODY, 0))))

\* the id the expansion of Loop End gives the Accumulate node of its first
\* connected slot: after GetLength, MathInt and Compare
FIRST_FOLD == LOOP_END + 4

\* the initial values of slots 0 and 1 of the Advanced Loop Start; the strings
\* "3" and "8" are also the ids of the body node and of the fold of slot 0
Inits == {<<None, None>>, <<IntV(0), None>>, <<StrV(-2), ListV(<<StrV(-2)>>)>>, <<StrV(BODY), StrV(FIRST_FOLD)>>}

WellWired ==
  {SimpleGraph(LOOP_START, b, w) : b \in BodyClasses, w \in Wirings \ {<<None, None>>}}
    \cup {SimpleGraph(LOOP_START, "Body_Item", <<None, None>>)}
    \cup {AdvancedGraph(LOOP_START, b, w, <<None, None>>) :
            b \in BodyClasses, w \in Wirings \ {<<None, None>>}}
    \cup {AdvancedGraph(LOOP_START, "Body_Item", w, i) : w \in Wirings, i \in Inits}

MisWired ==
  {SimpleGraph(BODY, "Body_Item", <<Link(BODY, 0), None>>),
   AdvancedGraph(BODY, "Body_Item", <<Link(BODY, 0), None>>, <<None, None>>),
   SimpleGraph(SOURCE, "Body_Item", <<Link(BODY, 0), None>>),
   MixedGraph("ComfyAngel_LoopStartSimple", "ComfyAngel_LoopEndAdvanced"),
   MixedGraph("ComfyAngel_LoopStartAdvanced", "ComfyAngel_LoopEndSimple")}

Init ==
  /\ HAS_GRAPH_UTILS \in BOOLEAN
  /\ source \in Sources
  /\ graph \in IF HAS_GRAPH_UTILS THEN WellWired \cup MisWired
               ELSE {SimpleGraph(LOOP_START, "Body_Item", <<Link(BODY, 0), None>>),
                     AdvancedGraph(LOOP_START, "Body_Item", <<Link(BODY, 0), None>>,
                                   <<None, None>>)} \cup MisWired
  /\ outputs = <<>>
  /\ pending = <<>>
  /\ status = "running"
  /\ nextId = LOOP_END + 1
  /\ lsLog = <<>>
  /\ leLog = <<>>
  /\ ctlLog = <<>>
  /\ accLog = <<>>

\* ------------------------------------------------------------------ actions
logs == <<lsLog, leLog, ctlLog, accLog>>
Fixed == <<HAS_GRAPH_UTILS, source>>

\* the producer of the iteration source
ExecSource ==
  \E n \in DOMAIN graph :
    /\ Exec(n, {"Source"}) /\ ~BadLink(n)
    /\ Finish(n, Returned(<<source>>))
    /\ UNCHANGED <<Fixed, logs>>

\* a user node of the loop body: passes its input on, or yields None
Body_run(class_type, x) ==
  CASE class_type = "Body_Item" -> <<x>>
    [] class_type = "Body_None" -> <<None>>
    [] OTHER -> IF x = IntV(0) THEN <<None>> ELSE <<x>>

ExecBody ==
  \E n \in DOMAIN graph :
    /\ Exec(n, BodyClasses) /\ ~BadLink(n)
    /\ Finish(n, Returned(Body_run(graph[n].class_type, Arg(n, "x"))))
    /\ UNCHANGED <<Fixed, logs>>

ExecLoopStartSimple ==
  \E n \in DOMAIN graph :
    /\ Exec(n, {"ComfyAngel_LoopStartSimple"}) /\ ~BadLink(n)
    /\ \E out \in {LoopStartSimple_loop_start(Arg(n, "items"), Arg(n, "_index"),
                          Arg(n, "_accumulated1"), Arg(n, "_accumulated2"))} :
          /\ Finish(n, Returned(out))
          /\ lsLog' = Append(lsLog, [id |-> n, out |-> out])
    /\ UNCHANGED <<Fixed, leLog, ctlLog, accLog>>

ExecLoopStartAdvanced ==
  \E n \in DOMAIN graph :
    /\ Exec(n, {"ComfyAngel_LoopStartAdvanced"}) /\ ~BadLink(n)
    /\ \E values \in {[i \in 1..MAX_SLOTS |-> Arg(n, initial_value[i])]} :
       \E out \in {LoopStartAdvanced_loop_start(Arg(n, "items"), Arg(n, "_index"), values)} :
          /\ Finish(n, Returned(out))
          /\ lsLog' = Append(lsLog, [id |-> n, out |-> out])
    /\ UNCHANGED <<Fixed, leLog, ctlLog, accLog>>

ExecLoopEndSimple ==
  \E n \in DOMAIN graph :
    /\ Exec(n, {"ComfyAngel_LoopEndSimple"}) /\ ~BadLink(n)
    /\ \E res \in {LoopEndSimple_loop_end(Arg(n, "flow"), Arg(n, "result1"),
                                            Arg(n, "result2"), graph, n, nextId)} :
          /\ Finish(n, res)
          /\ leLog' = Append(leLog, [id |-> n, raised |-> res.raise,
                                     nodes |-> DOMAIN res.expand])
    /\ UNCHANGED <<Fixed, lsLog, ctlLog, accLog>>

ExecLoopEndAdvanced ==
  \E n \in DOMAIN graph :
    /\ Exec(n, {"ComfyAngel_LoopEndAdvanced"}) /\ ~BadLink(n)
    /\ \E results \in {[i \in 1..MAX_SLOTS |-> Arg(n, result[i])]} :
       \E res \in {LoopEndAdvanced_loop_end(Arg(n, "flow"), results, graph, n, nextId)} :
          /\ Finish(n, res)
          /\ leLog' = Append(leLog, [id |-> n, raised |-> res.raise,
                                     nodes |-> DOMAIN res.expand])
    /\ UNCHANGED <<Fixed, lsLog, ctlLog, accLog>>

\* a controller that, when it continues, calls the next Loop Start itself
ExecWhileLoopEndSimple_CallsLoopStart ==
  \E n \in DOMAIN graph :
    /\ Exec(n, {"ComfyAngel_WhileLoopEndSimple"}) /\ ~BadLink(n)
    /\ \E accs \in {<<Arg(n, "accumulated1"), Arg(n, "accumulated2")>>} :
       \E res \in {WhileLoopEndSimple_while_end(Arg(n, "flow"), Arg(n, "condition"),
                       Arg(n, "next_index"), accs[1], accs[2], graph, n, nextId)} :
          /\ Finish(n, res)
          /\ ctlLog' = Append(ctlLog, [id |-> n, condition |-> Arg(n, "condition"),
                                       next_index |-> Arg(n, "next_index"), accs |-> accs,
                                       raised |-> res.raise, nodes |-> DOMAIN res.expand,
                                       result |-> res.result])
          /\ lsLog' = IF res.expanded
                      THEN Append(lsLog, [id |-> n, out |-> LoopStartSimple_loop_start(
                              ListV(<<source>>), ListV(<<Arg(n, "next_index")>>),
                              ListV(<<accs[1]>>), ListV(<<accs[2]>>))])
                      ELSE lsLog
    /\ UNCHANGED <<Fixed, leLog, accLog>>

ExecWhileLoopEndSimple ==
  \E n \in DOMAIN graph :
    /\ Exec(n, {"ComfyAngel_WhileLoopEndSimple"}) /\ ~BadLink(n)
    /\ \E accs \in {<<Arg(n, "accumulated1"), Arg(n, "accumulated2")>>} :
       \E res \in {WhileLoopEndSimple_while_end(Arg(n, "flow"), Arg(n, "condition"),
                       Arg(n, "next_index"), accs[1], accs[2], graph, n, nextId)} :
          /\ Finish(n, res)
          /\ ctlLog' = Append(ctlLog, [id |-> n, condition |-> Arg(n, "condition"),
                                       next_index |-> Arg(n, "next_index"), accs |-> accs,
                                       raised |-> res.raise, nodes |-> DOMAIN res.expand,
                                       result |-> res.result])
    /\ UNCHANGED <<Fixed, lsLog, leLog, accLog>>

ExecWhileLoopEndAdvanced ==
  \E n \in DOMAIN graph :
    /\ Exec(n, {"ComfyAngel_WhileLoopEndAdvanced"}) /\ ~BadLink(n)
    /\ \E accs \in {[i \in 1..MAX_SLOTS |-> Arg(n, initial_value[i])]} :
       \E res \in {WhileLoopEndAdvanced_while_end(Arg(n, "flow"), Arg(n, "condition"),
                       Arg(n, "next_index"), accs, graph, n, nextId)} :
          /\ Finish(n, res)
          /\ ctlLog' = Append(ctlLog, [id |-> n, condition |-> Arg(n, "condition"),
                                       next_index |-> Arg(n, "next_index"), accs |-> accs,
                                       raised |-> res.raise, nodes |-> DOMAIN res.expand,
                                       result |-> res.result])
    /\ UNCHANGED <<Fixed, lsLog, leLog, accLog>>

ExecGetLength ==
  \E n \in DOMAIN graph :
    /\ Exec(n, {"ComfyAngel_GetLength"}) /\ ~BadLink(n)
    /\ Finish(n, Returned(GetLength_get_length(Arg(n, "items"))))
    /\ UNCHANGED <<Fixed, logs>>

ExecMathInt ==
  \E n \in DOMAIN graph :
    /\ Exec(n, {"ComfyAngel_MathInt"}) /\ ~BadLink(n)
    /\ Finish(n, Returned(MathInt_math_op(Arg(n, "a"), Arg(n, "b"), Arg(n, "operation"))))
    /\ UNCHANGED <<Fixed, logs>>

ExecCompare ==
  \E n \in DOMAIN graph :
    /\ Exec(n, {"ComfyAngel_Compare"}) /\ ~BadLink(n)
    /\ Finish(n, Returned(Compare_compare(Arg(n, "a"), Arg(n, "b"), Arg(n, "comparison"))))
    /\ UNCHANGED <<Fixed, logs>>

ExecAccumulate ==
  \E n \in DOMAIN graph :
    /\ Exec(n, {"ComfyAngel_Accumulate"}) /\ ~BadLink(n)
    /\ \E out \in {Accumulate_accumulate(Arg(n, "existing"), Arg(n, "new_item"))} :
          /\ Finish(n, Returned(out))
          /\ accLog' = Append(accLog, [id |-> n, existing |-> Arg(n, "existing"),
                                       new_item |-> Arg(n, "new_item"), out |-> out])
    /\ UNCHANGED <<Fixed, lsLog, leLog, ctlLog>>

ExecFlowStateExtractor ==
  \E n \in DOMAIN graph :
    /\ Exec(n, {"ComfyAngel_FlowStateExtractor"}) /\ ~BadLink(n)
    /\ Finish(n, Returned(FlowStateExtractor_extract(Arg(n, "flow_state"))))
    /\ UNCHANGED <<Fixed, logs>>

\* the host cannot resolve a link of a node it is about to run
HostLinkError ==
  \E n \in DOMAIN graph :
    /\ Ready(n) /\ BadLink(n)
    /\ status' = "error"
    /\ UNCHANGED <<Fixed, graph, outputs, pending, nextId, logs>>

\* the fragment of an expanded node has run: its result links become its outputs
ResolvePending ==
  \E n \in DOMAIN pending :
    /\ status = "running"
    /\ \A i \in 1..Len(pending[n]) : pending[n][i].e[1].n \in DOMAIN outputs
    /\ outputs' = (n :> [i \in 1..Len(pending[n]) |->
                           outputs[pending[n][i].e[1].n][pending[n][i].e[2].n + 1]]) @@ outputs
    /\ pending' = [m \in DOMAIN pending \ {n} |-> pending[m]]
    /\ UNCHANGED <<Fixed, graph, status, nextId, logs>>

Next ==
  \/ ExecSource
  \/ ExecBody
  \/ ExecLoopStartSimple
  \/ ExecLoopStartAdvanced
  \/ ExecLoopEndSimple
  \/ ExecLoopEndAdvanced
  \/ ExecWhileLoopEndSimple
  \/ ExecWhileLoopEndAdvanced
  \/ ExecGetLength
  \/ ExecMathInt
  \/ ExecCompare
  \/ ExecAccumulate
  \/ ExecFlowStateExtractor
  \/ HostLinkError
  \/ ResolvePending

Spec == Init /\ [][Next]_vars

FairSpec == Spec /\ WF_vars(Next)

\* ------------------------------------------------------ the fold on its own
\* One accumulator slot fed a sequence of contributions, as the Accumulate
\* nodes of successive iterations feed it: source holds the contributions and
\* accLog the calls.
Image == Tensor(<<2, 1, 2>>, <<IntV(201), IntV(202)>>)
ImageBatch == Tensor(<<1, 2, 1, 2>>, <<IntV(301)>>)

Contributions ==
  {IntV(0), StrV(-2), ListV(<<IntV(0)>>), Batch(1), Batch(2), Image, ImageBatch}

InitFold ==
  /\ HAS_GRAPH_UTILS = TRUE
  /\ source \in {ListV(q) : q \in {r \in SeqsUpTo(Contributions, MaxFold) : Len(r) = MaxFold}}
  /\ graph = <<>>
  /\ outputs = <<>>
  /\ pending = <<>>
  /\ status = "running"
  /\ nextId = 1
  /\ lsLog = <<>>
  /\ leLog = <<>>
  /\ ctlLog = <<>>
  /\ accLog = <<>>

Fold ==
  /\ status = "running"
  /\ Len(accLog) < Len(source.e)
  /\ \E existing \in {IF accLog = <<>> THEN None ELSE accLog[Len(accLog)].out[1]} :
     \E new_item \in {source.e[Len(accLog) + 1]} :
     \E out \in {Accumulate_accumulate(existing, new_item)} :
        /\ accLog' = Append(accLog, [id |-> 0, existing |-> existing,
                                     new_item |-> new_item, out |-> out])
        /\ status' = IF Raised(out) THEN "error" ELSE status
  /\ UNCHANGED <<Fixed, graph, outputs, pending, nextId, lsLog, leLog, ctlLog>>

SpecFold == InitFold /\ [][Fold]_vars

\* ------------------------------------------------------ two loops in a graph
\* A second loop in the same workflow, nested in the first or beside it.
SECOND_START == 5
SECOND_BODY == 6
SECOND_END == 7

\* the second loop iterates over the item of the first, and the body of the
\* first consumes what the second returns
NestedGraph ==
  (SOURCE :> Node("Source", NoInputs)) @@
  (LOOP_START :> Node("ComfyAngel_LoopStartSimple", "items" :> Link(SOURCE, 0))) @@
  (BODY :> Node("Body_Item", "x" :> Link(SECOND_END, 0))) @@
  (LOOP_END :> Node("ComfyAngel_LoopEndSimple",
      ("flow" :> Link(LOOP_START, 0)) @@ ("result1" :> Link(BODY, 0)))) @@
  (SECOND_START :> Node("ComfyAngel_LoopStartSimple", "items" :> Link(LOOP_START, 1))) @@
  (SECOND_BODY :> Node("Body_Item", "x" :> Link(SECOND_START, 1))) @@
  (SECOND_END :> Node("ComfyAngel_LoopEndSimple",
      ("flow" :> Link(SECOND_START, 0)) @@ ("result1" :> Link(SECOND_BODY, 0))))

\* two loops over the same source, neither feeding the other
SiblingGraph ==
  (SOURCE :> Node("Source", NoInputs)) @@
  (LOOP_START :> Node("ComfyAngel_LoopStartSimple", "items" :> Link(SOURCE, 0))) @@
  (BODY :> Node("Body_Item", "x" :> Link(LOOP_START, 1))) @@
  (LOOP_END :> Node("ComfyAngel_LoopEndSimple",
      ("flow" :> Link(LOOP_START, 0)) @@ ("result1" :> Link(BODY, 0)))) @@
  (SECOND_START :> Node("ComfyAngel_LoopStartAdvanced",
      ("items" :> Link(SOURCE, 0)) @@ ("initial_value1" :> StrV(-2)))) @@
  (SECOND_BODY :> Node("Body_Item", "x" :> Link(SECOND_START, 1))) @@
  (SECOND_END :> Node("ComfyAngel_LoopEndAdvanced",
      ("flow" :> Link(SECOND_START, 0)) @@ ("result0" :> Link(SECOND_BODY, 0))))

TwoLoops ==
  {<<ListV(<<IntV(0), StrV(-2)>>), NestedGraph>>,
   <<ListV(<<IntV(0), StrV(-2)>>), SiblingGraph>>,
   <<ListV(<<StrV(-2), IntV(0), IntV(0)>>), SiblingGraph>>,
   <<ListV(<<StrV(SECOND_START), IntV(0), IntV(0)>>), SiblingGraph>>}

InitTwo ==
  /\ HAS_GRAPH_UTILS = TRUE
  /\ \E w \in TwoLoops : source = w[1] /\ graph = w[2]
  /\ outputs = <<>>
  /\ pending = <<>>
  /\ status = "running"
  /\ nextId = SECOND_END + 1
  /\ lsLog = <<>>
  /\ leLog = <<>>
  /\ ctlLog = <<>>
  /\ accLog = <<>>

SpecTwo == InitTwo /\ [][Next]_vars

\* ------------------------------------------------- the closure on its own
\* The closure of lines 254-262 computed for any controller id and Loop Start
\* id over acyclic graphs of MaxWalk nodes: node n has an input a that is
\* unconnected or linked to any earlier node, and an input b that is
\* unconnected or linked to node n - 1.  ctlLog holds the call.
WalkInputs(n) ==
  {set_input(set_input(NoInputs, "a", a), "b", b) :
     a \in {None} \cup {Link(m, 0) : m \in 1..(n - 1)},
     b \in {None} \cup {Link(m, 0) : m \in (n - 1)..(n - 1) \ {0}}}

WalkGraphs == {g \in [1..MaxWalk -> UNION {WalkInputs(n) : n \in 1..MaxWalk}] : \A n \in 1..MaxWalk : g[n] \in WalkInputs(n)}

InitWalk ==
  /\ HAS_GRAPH_UTILS = TRUE
  /\ source = None
  /\ \E g \in WalkGraphs : graph = [n \in 1..MaxWalk |-> Node("Body_Item", g[n])]
  /\ outputs = <<>>
  /\ pending = <<>>
  /\ status = "running"
  /\ nextId = MaxWalk + 1
  /\ lsLog = <<>>
  /\ leLog = <<>>
  /\ ctlLog = <<>>
  /\ accLog = <<>>

Walk ==
  /\ ctlLog = <<>>
  /\ \E unique_id \in DOMAIN graph : \E loop_start_id \in DOMAIN graph :
     \E contained \in {Closure(graph, unique_id, loop_start_id)} :
        ctlLog' = <<[id |-> unique_id, loop_start_id |-> loop_start_id, contained |-> contained]>>
  /\ UNCHANGED <<Fixed, graph, outputs, pending, status, nextId, lsLog, leLog, accLog>>

SpecWalk == InitWalk /\ [][Walk]_vars

\* ---------------------------------------------------- Loop Start on its own
\* A Loop Start of either variant called with any resumption index from 0 to
\* beyond the end of any source.
InitStart ==
  /\ HAS_GRAPH_UTILS = TRUE
  /\ source \in Sources
  /\ \E class_type \in {"ComfyAngel_LoopStartSimple", "ComfyAngel_LoopStartAdvanced"} :
     \E index \in 0..(MaxLen + 1) :
        graph = (SOURCE :> Node("Source", NoInputs)) @@
                (LOOP_START :> Node(class_type,
                    ("items" :> Link(SOURCE, 0)) @@ ("_index" :> IntV(index))))
  /\ outputs = <<>>
  /\ pending = <<>>
  /\ status = "running"
  /\ nextId = LOOP_START + 1
  /\ lsLog = <<>>
  /\ leLog = <<>>
  /\ ctlLog = <<>>
  /\ accLog = <<>>

NextStart == ExecSource \/ ExecLoopStartSimple \/ ExecLoopStartAdvanced

SpecStart == InitStart /\ [][NextStart]_vars

\* ------------------------------------------------ the walk, step by step
\* explore_dependencies (lines 222-237) run one step at a time on graphs
\* whose links may form cycles: node n has an input a that is unconnected, a
\* literal or linked to any node, itself included, and an input b that is
\* unconnected or linked to the next node round.  ctlLog holds the call in
\* progress: the controller's id, upstream, the stack of the calls of
\* explore_dependencies (node_id and the inputs still to be looked at) and,
\* for each node, how many times it has been explored.
CycleInputs(n) ==
  {set_input(set_input(NoInputs, "a", a), "b", b) :
     a \in {None, IntV(0)} \cup {Link(m, 0) : m \in 1..MaxCycle},
     b \in {None, Link((n % MaxCycle) + 1, 0)}}

CycleGraphs == {g \in [1..MaxCycle -> UNION {CycleInputs(n) : n \in 1..MaxCycle}] : \A n \in 1..MaxCycle : g[n] \in CycleInputs(n)}

Frame(node_id) == [node_id |-> node_id, ks |-> InputsOf(graph[node_id])]

InitCycle ==
  /\ HAS_GRAPH_UTILS = TRUE
  /\ source = None
  /\ \E g \in CycleGraphs :
        /\ graph = [n \in 1..MaxCycle |-> Node("Body_Item", g[n])]
        /\ ctlLog = <<[id |-> 1, upstream |-> NewWalk.upstream,
                       stack |-> <<[node_id |-> 1, ks |-> InputsOf(Node("Body_Item", g[1]))]>>,
                       explored |-> [n \in 1..MaxCycle |-> IF n = 1 THEN 1 ELSE 0]]>>
  /\ outputs = <<>>
  /\ pending = <<>>
  /\ status = "running"
  /\ nextId = MaxCycle + 1
  /\ lsLog = <<>>
  /\ leLog = <<>>
  /\ accLog = <<>>

\* the call of explore_dependencies on top of the stack and the input it is at
Top == ctlLog[1].stack[Len(ctlLog[1].stack)]
AtInput(frame) == graph[frame.node_id].inputs[Head(frame.ks)]

\* a walk that does not record the producer before exploring it
Record_NotYet(upstream, parent_id) == upstream

\* line 235: upstream[parent_id] = [], before parent_id is explored
Record(upstream, parent_id) == (parent_id :> <<>>) @@ upstream

\* line 237: upstream[parent_id].append(node_id), and on to the next input
Appended(call, frame) ==
  [call EXCEPT !.upstream[AtInput(frame).e[1].n] = Append(@, frame.node_id),
               !.stack[Len(call.stack)] = [frame EXCEPT !.ks = Tail(@)]]

\* lines 234-236: a producer not yet in upstream is recorded and explored
WalkDescend ==
  /\ ctlLog[1].stack # <<>> /\ Top.ks # <<>>
  /\ is_link(AtInput(Top))
  /\ AtInput(Top).e[1].n \notin DOMAIN ctlLog[1].upstream
  /\ \E parent_id \in {AtInput(Top).e[1].n} :
        ctlLog' = <<[ctlLog[1] EXCEPT !.upstream = Record(@, parent_id),
                                      !.stack = Append(@, Frame(parent_id)),
                                      !.explored[parent_id] = @ + 1]>>
  /\ UNCHANGED <<Fixed, graph, outputs, pending, status, nextId, lsLog, leLog, accLog>>

\* lines 226-227, 234, 237: an input that is no link is passed over; a
\* producer already in upstream is not explored again
WalkAdvance ==
  /\ ctlLog[1].stack # <<>> /\ Top.ks # <<>>
  /\ \/ /\ ~is_link(AtInput(Top))
        /\ ctlLog' = <<[ctlLog[1] EXCEPT !.stack[Len(ctlLog[1].stack)].ks = Tail(@)]>>
     \/ /\ is_link(AtInput(Top))
        /\ AtInput(Top).e[1].n \in DOMAIN ctlLog[1].upstream
        /\ ctlLog' = <<Appended(ctlLog[1], Top)>>
  /\ UNCHANGED <<Fixed, graph, outputs, pending, status, nextId, lsLog, leLog, accLog>>

\* the for loop of a call is over: it returns, and its caller goes on at line 237
WalkReturn ==
  /\ ctlLog[1].stack # <<>> /\ Top.ks = <<>>
  /\ \E returned \in {[ctlLog[1] EXCEPT !.stack = SubSeq(@, 1, Len(@) - 1)]} :
        ctlLog' = IF returned.stack = <<>> THEN <<returned>>
                  ELSE <<Appended(returned, returned.stack[Len(returned.stack)])>>
  /\ UNCHANGED <<Fixed, graph, outputs, pending, status, nextId, lsLog, leLog, accLog>>

NextCycle == WalkDescend \/ WalkAdvance \/ WalkReturn

\* the walk is sequential code: it keeps running until it returns
SpecCycle == InitCycle /\ [][NextCycle]_vars /\ WF_vars(NextCycle)

\* ------------------------------------------------- vocabulary of the claims
Simple == graph[LOOP_END].class_type = "ComfyAngel_LoopEndSimple"
Advanced == graph[LOOP_END].class_type = "ComfyAngel_LoopEndAdvanced"
FlowOrigin == graph[LOOP_END].inputs["flow"].e[1].n

\* the flow input of Loop End comes from the Loop Start of its own variant
Matched ==
  \/ Simple /\ graph[FlowOrigin].class_type = "ComfyAngel_LoopStartSimple"
  \/ Advanced /\ graph[FlowOrigin].class_type = "ComfyAngel_LoopStartAdvanced"

Completed == LOOP_END \in DOMAIN outputs

\* the elements of the iteration source, in order
SourceItems ==
  LET rows(t) == [i \in 1..t.s[1] |-> Tensor(<<1>> \o Tail(t.s), <<t.e[i]>>)]
  IN CASE source.k = "none" -> <<>>
       [] source.k = "tensor" -> rows(source)
       [] source.k = "list" /\ Len(source.e) = 1 /\ source.e[1].k = "tensor" -> rows(source.e[1])
       [] source.k \in {"list", "tuple"} -> source.e
       [] OTHER -> <<source>>

SourceLength == Len(SourceItems)

\* the index a Loop Start call reported
ReportedIndex(call) ==
  IF Len(call.out) = 2 THEN call.out[1].e[1].n ELSE call.out[3].n

\* C1: in a loop over a source of length N >= 1, the k-th Loop Start call
\* reports index k-1 and (Advanced) is_last exactly when k = N, there are
\* never more than N calls, and a completed run has made exactly N.
C1_IndicesAndIsLast ==
  (Matched /\ SourceLength >= 1) =>
    /\ Len(lsLog) <= SourceLength
    /\ \A k \in 1..Len(lsLog) :
         /\ ~Raised(lsLog[k].out)
         /\ ReportedIndex(lsLog[k]) = k - 1
         /\ Advanced => lsLog[k].out[5] = BoolV(k = SourceLength)
    /\ Completed => Len(lsLog) = SourceLength

C1_Witness ==
  /\ Advanced /\ Matched /\ Completed
  /\ SourceLength = MaxLen
  /\ Len(lsLog) = MaxLen
  /\ lsLog[MaxLen].out[5] = BoolV(TRUE)

\* C2: in a Simple loop over a list of N >= 1 non-tensor values whose second
\* result is the current item, Loop End finally returns the list of the N
\* items in source order.
ItemIntoSlot2 ==
  /\ Simple /\ Matched
  /\ Get(graph[LOOP_END].inputs, "result2") = Link(LOOP_START, 1)
  /\ source.k = "list" /\ Len(source.e) >= 1
  /\ \A i \in 1..Len(source.e) : ~IsTensor(source.e[i])

C2_ItemsInSourceOrder ==
  (ItemIntoSlot2 /\ Completed) => outputs[LOOP_END][2] = ListV(source.e)

\* C3: a slot that gets no result keeps its accumulator: an Accumulate call
\* with new_item None returns existing, and a slot whose result is unconnected
\* or always None holds its initial value (None when there is none) at every
\* controller call and in Loop End's output, while a completed run still made
\* N Loop Start calls, the last with index N-1.
ResultName(slot) == IF Simple THEN <<"result1", "result2">>[slot] ELSE result[slot]
Slots == IF Simple THEN 1..2 ELSE 1..MAX_SLOTS

NoResult(slot) ==
  LET r == Get(graph[LOOP_END].inputs, ResultName(slot))
  IN \/ IsNone(r)
     \/ r = Link(BODY, 0) /\ graph[BODY].class_type = "Body_None"

InitialAcc(slot) ==
  IF Simple THEN None ELSE Get(graph[LOOP_START].inputs, initial_value[slot])

C3_NoResultKeepsAccumulator ==
  /\ \A i \in 1..Len(accLog) :
       IsNone(accLog[i].new_item) => accLog[i].out = <<accLog[i].existing>>
  /\ Matched =>
       \A slot \in Slots :
          NoResult(slot) =>
            /\ \A i \in 1..Len(ctlLog) : ctlLog[i].accs[slot] = InitialAcc(slot)
            /\ Completed =>
                 /\ outputs[LOOP_END][slot] = InitialAcc(slot)
                 /\ Len(lsLog) = SourceLength
                 /\ ReportedIndex(lsLog[Len(lsLog)]) = SourceLength - 1

C3_Witness ==
  /\ Matched /\ Completed /\ SourceLength = MaxLen
  /\ \A slot \in Slots : NoResult(slot)
  /\ \A slot \in Slots : IsNone(outputs[LOOP_END][slot])
  /\ Len(ctlLog) = MaxLen

\* C4: over a source of length 0 the first Loop Start call raises: the run is
\* aborted with no second call, no body node run, no Loop End or While Loop
\* End call, no node added and no output of Loop End.
C4_EmptySourceRaises ==
  SourceLength = 0 =>
    /\ Len(lsLog) <= 1
    /\ \A k \in 1..Len(lsLog) : Raised(lsLog[k].out) /\ status = "error"
    /\ BODY \notin DOMAIN outputs
    /\ leLog = <<>> /\ ctlLog = <<>> /\ accLog = <<>>
    /\ DOMAIN graph = 1..LOOP_END
    /\ pending = <<>>
    /\ ~Completed

C4_Witness ==
  /\ source = ListV(<<Batch(0)>>)
  /\ Len(lsLog) = 1 /\ Raised(lsLog[1].out)
  /\ status = "error"

\* C5: a Loop End whose flow input does not come from the Loop Start of its
\* own variant raises: its call builds no fragment, no node is ever added to
\* the host graph, nothing is pending and the run is aborted.
C5_WrongFlowOriginRaises ==
  ~Matched =>
    /\ \A i \in 1..Len(leLog) : leLog[i].raised /\ leLog[i].nodes = {}
    /\ leLog # <<>> => status = "error"
    /\ DOMAIN graph = 1..LOOP_END
    /\ pending = <<>>
    /\ ctlLog = <<>>
    /\ ~Completed

C5_Witness ==
  /\ HAS_GRAPH_UTILS
  /\ Simple /\ graph[FlowOrigin].class_type = "ComfyAngel_LoopStartAdvanced"
  /\ Len(leLog) = 1 /\ leLog[1].raised

\* C6: without the host's graph utilities every Loop End call raises: it
\* builds no fragment, no node is added, nothing is pending, the run is
\* aborted and Loop End has no output.
C6_NoGraphUtilsRaises ==
  ~HAS_GRAPH_UTILS =>
    /\ \A i \in 1..Len(leLog) : leLog[i].raised /\ leLog[i].nodes = {}
    /\ leLog # <<>> => status = "error"
    /\ DOMAIN graph = 1..LOOP_END
    /\ pending = <<>>
    /\ ctlLog = <<>>
    /\ ~Completed

C6_Witness ==
  /\ ~HAS_GRAPH_UTILS /\ Matched /\ SourceLength = 2
  /\ Len(leLog) = 1 /\ leLog[1].raised

\* the nodes added by a While Loop End: the clones of a closure
Clones == {n \in DOMAIN graph : graph[n].display \notin {0, LOOP_END}}

\* C7: over a source of length 1 there is one Loop Start call, with is_last
\* true (Advanced), and the only controller call has a false condition,
\* returns its accumulators and builds no fragment: no clone is ever created.
C7_SingleIteration ==
  (Matched /\ SourceLength = 1) =>
    /\ Len(lsLog) <= 1 /\ Len(ctlLog) <= 1
    /\ \A k \in 1..Len(lsLog) :
         ~Raised(lsLog[k].out) /\ (Advanced => lsLog[k].out[5] = BoolV(TRUE))
    /\ \A i \in 1..Len(ctlLog) :
         /\ ~Truthy(ctlLog[i].condition)
         /\ ctlLog[i].nodes = {}
         /\ ~ctlLog[i].raised
         /\ outputs[ctlLog[i].id] = ctlLog[i].accs
    /\ Clones = {}
    /\ Completed => Len(lsLog) = 1 /\ Len(ctlLog) = 1

C7_Witness ==
  /\ Matched /\ SourceLength = 1 /\ Completed
  /\ Len(ctlLog) = 1 /\ Clones = {}
  /\ \E slot \in Slots : ~IsNone(outputs[LOOP_END][slot])

\* a controller call with a false condition was reached and Loop End has
\* its outputs
Terminated ==
  /\ Completed
  /\ ctlLog # <<>>
  /\ ~Truthy(ctlLog[Len(ctlLog)].condition)

\* no run continues forever: it is aborted by an error, or it terminates
RunsEnd == <>(status = "error" \/ Terminated)

\* C8: a well-formed loop over a source of length N >= 1, run by a host that
\* executes whatever is ready, eventually reaches a controller call whose
\* condition is false, and Loop End's outputs become available.
C8_LoopTerminates ==
  (HAS_GRAPH_UTILS /\ Matched /\ SourceLength >= 1) => <>Terminated

\* what a value holds, in order: the data of a tensor along its leading
\* dimension, the elements of a container, the value itself otherwise
Content(v) == IF IsTensor(v) THEN v.e ELSE <<v>>

RECURSIVE Contents(_)
Contents(vs) == IF vs = <<>> THEN <<>> ELSE Content(Head(vs)) \o Contents(Tail(vs))

Elements(container) ==
  IF IsList(container) THEN Contents(container.e) ELSE Content(container)

\* the tensors among vs have one rank and one trailing shape
SameShape(vs) ==
  \A i, j \in 1..Len(vs) :
     (IsTensor(vs[i]) /\ IsTensor(vs[j])) => Tail(vs[i].s) = Tail(vs[j].s)

Origin(n) == get_display_node_id(graph, n)

FirstLoop == {LOOP_START, BODY, LOOP_END}
SecondLoop == {SECOND_START, SECOND_BODY, SECOND_END}
Nested == SECOND_END \in DOMAIN graph /\ graph[BODY].inputs["x"] = Link(SECOND_END, 0)
Siblings == SECOND_END \in DOMAIN graph /\ ~Nested

\* the controller calls of the loop that ends at loop_end
CallsOf(loop_end) == {i \in 1..Len(ctlLog) : Origin(ctlLog[i].id) = loop_end}

\* the nodes a controller call cloned: its closure
ClosureOf(i) == {graph[c].display : c \in ctlLog[i].nodes}

Continuing == {i \in 1..Len(ctlLog) : ctlLog[i].nodes # {}}

\* the Loop Start a controller call is bound to (flow[0]) and its clone in
\* the fragment of that call
BoundStart(i) == graph[ctlLog[i].id].inputs["flow"].e[1].n
StartClone(i) == CHOOSE c \in ctlLog[i].nodes : graph[c].display = BoundStart(i)

\* index and accumulators as the next iteration reads them from a Loop Start
\* call: Simple through FlowStateExtractor, Advanced from the index and value
\* outputs
ReadBack(call) ==
  IF Len(call.out) = 2 THEN FlowStateExtractor_extract(call.out[1])
  ELSE <<call.out[3]>> \o SubSeq(call.out, VALUE_OUTPUT_OFFSET + 1, VALUE_OUTPUT_OFFSET + MAX_SLOTS)

\* C12: the index and the accumulators that a continuing controller call
\* places on the cloned Loop Start are exactly what the next iteration reads
\* back from that clone, whatever the shape of an accumulator.
C12_ResumptionRoundTrip ==
  \A i \in Continuing : \A k \in 1..Len(lsLog) :
     lsLog[k].id = StartClone(i) =>
        /\ ~Raised(lsLog[k].out)
        /\ ReadBack(lsLog[k]) = <<ctlLog[i].next_index>> \o ctlLog[i].accs

\* the two loops of SiblingGraph: Loop Start, body node, Loop End
Loops == {<<LOOP_START, BODY, LOOP_END>>, <<SECOND_START, SECOND_BODY, SECOND_END>>}

\* the nodes that the links of a node point to
Producers(n) == {graph[n].inputs[k].e[1].n : k \in {j \in DOMAIN graph[n].inputs : is_link(graph[n].inputs[j])}}

\* the nodes a Loop End or a controller of the loop ending at loop_end added
FragmentsOf(loop_end) ==
  UNION ({ctlLog[i].nodes : i \in CallsOf(loop_end)} \cup
         {leLog[i].nodes : i \in {j \in 1..Len(leLog) : Origin(leLog[j].id) = loop_end}})

\* what Loop End returns when the loop runs alone over a list of scalars with
\* the body's item wired to one slot: that list in the slot, the initial
\* value in every other slot
AloneOutputs(loop) ==
  IF graph[loop[3]].class_type = "ComfyAngel_LoopEndSimple"
  THEN <<ListV(source.e), None>>
  ELSE [slot \in 1..MAX_SLOTS |->
          IF slot = 1 THEN ListV(source.e)
          ELSE Get(graph[loop[1]].inputs, initial_value[slot])]

\* C13: two loops with no link between them, under every interleaving of the
\* host: the Loop Start calls of each loop report 0, 1, 2, ... in order, each
\* continuing controller call clones exactly its own loop (Loop Start, body
\* and the nodes of its own Loop End), every node added for one loop is
\* displayed as a node of that loop and has no link to a node of the other,
\* and the outputs of each Loop End are those of the loop run alone.
C13_SiblingLoopsIndependent ==
  Siblings =>
    \A loop \in Loops :
      /\ \A k \in 1..Len(lsLog) :
           Origin(lsLog[k].id) = loop[1] =>
             /\ ~Raised(lsLog[k].out)
             /\ ReportedIndex(lsLog[k]) = Cardinality({j \in 1..(k - 1) : Origin(lsLog[j].id) = loop[1]})
      /\ \A i \in CallsOf(loop[3]) \cap Continuing :
           /\ Origin(BoundStart(i)) = loop[1]
           /\ {Origin(node_id) : node_id \in ClosureOf(i)} = {loop[1], loop[2], loop[3]}
           /\ Cardinality(ClosureOf(i)) = Cardinality(ctlLog[i].nodes)
      /\ \A n \in FragmentsOf(loop[3]) :
           /\ Origin(n) \in {loop[1], loop[2], loop[3]}
           /\ \A p \in Producers(n) :
                \A other \in Loops \ {loop} : Origin(p) \notin {other[1], other[2], other[3]}
      /\ loop[3] \in DOMAIN outputs => outputs[loop[3]] = AloneOutputs(loop)

\* the Loop Start calls of the node a controller call is bound to
StartCalls(i) == {k \in 1..Len(lsLog) : lsLog[k].id = BoundStart(i)}

\* C14: the controller call of an iteration whose Loop Start reported index
\* i over a source of length total has next_index = i + 1 and a condition
\* that is true exactly when i + 1 < total, and it continues (builds a
\* fragment) exactly then; i is the index of the Loop Start of this
\* iteration, so the k-th controller call has next_index = k.
C14_NextIndexAndCondition ==
  \A i \in 1..Len(ctlLog) :
     /\ Cardinality(StartCalls(i)) = 1
     /\ \A k \in StartCalls(i) :
          /\ ctlLog[i].next_index = IntV(ReportedIndex(lsLog[k]) + 1)
          /\ ctlLog[i].condition = BoolV(ReportedIndex(lsLog[k]) + 1 < SourceLength)
          /\ ~ctlLog[i].raised
          /\ (ctlLog[i].nodes # {}) <=> (ReportedIndex(lsLog[k]) + 1 < SourceLength)
     /\ ctlLog[i].next_index = IntV(i)

C14_Witness ==
  /\ Len(ctlLog) = MaxLen /\ SourceLength = MaxLen
  /\ ctlLog[MaxLen - 1].next_index = IntV(MaxLen - 1) /\ ctlLog[MaxLen - 1].nodes # {}
  /\ ctlLog[MaxLen].next_index = IntV(MaxLen) /\ ctlLog[MaxLen].nodes = {}
  /\ ctlLog[MaxLen].condition = BoolV(FALSE)

\* the Accumulate node of Loop End's fragment that an Accumulate node is a
\* clone of (itself when it is no clone): one per slot
RECURSIVE AccumulateOf(_)
AccumulateOf(n) ==
  IF graph[graph[n].display].class_type = "ComfyAngel_Accumulate"
  THEN AccumulateOf(graph[n].display) ELSE n

\* the earlier Accumulate calls of the slot of call k
EarlierFolds(k) == {j \in 1..(k - 1) : AccumulateOf(accLog[j].id) = AccumulateOf(accLog[k].id)}

\* C15: from the second iteration on, the existing accumulator that the fold
\* of a slot receives is the accumulator that the fold of the previous
\* iteration of that slot produced.
C15_FoldReadsPreviousAccumulator ==
  \A k \in 1..Len(accLog) :
     EarlierFolds(k) # {} =>
        LET j == CHOOSE x \in EarlierFolds(k) : \A y \in EarlierFolds(k) : y <= x
        IN accLog[k].existing = accLog[j].out[1]

\* the nodes from which n is reached by a path of one or more links
RECURSIVE ProducersUpTo(_, _)
ProducersUpTo(S, depth) ==
  IF depth = 0 THEN S
  ELSE ProducersUpTo(S \cup UNION {Producers(n) : n \in S}, depth - 1)
Upstream(n) == ProducersUpTo(Producers(n), Cardinality(DOMAIN graph))

\* the nodes on a directed link path from loop_start_id to unique_id, ends excluded
Between(loop_start_id, unique_id) ==
  {n \in DOMAIN graph : loop_start_id \in Upstream(n) /\ n \in Upstream(unique_id)}

\* C16: the closure is the controller's id, the Loop Start's id and every
\* node on a directed link path from the Loop Start to the controller; both
\* ids are in it when no path joins them, and no node upstream of the Loop
\* Start is.
C16_ClosureIsPathNodes ==
  \A i \in 1..Len(ctlLog) :
     LET unique_id == ctlLog[i].id
         loop_start_id == ctlLog[i].loop_start_id
     IN /\ ctlLog[i].contained = {unique_id, loop_start_id} \cup Between(loop_start_id, unique_id)
        /\ \A n \in Upstream(loop_start_id) \ {unique_id} : n \notin ctlLog[i].contained

\* a controller with a node between it and the Loop Start, whose producer the
\* walk visited and the closure leaves out
C16_Witness ==
  /\ Len(ctlLog) = 1
  /\ Cardinality(ctlLog[1].contained) >= 3
  /\ ctlLog[1].loop_start_id \in Upstream(ctlLog[1].id)
  /\ \E n \in Upstream(ctlLog[1].loop_start_id) : n \in Upstream(ctlLog[1].id) /\ n \notin ctlLog[1].contained

\* the clone of closure node node_id in the fragment of controller call i
CloneOf(i, node_id) == CHOOSE c \in ctlLog[i].nodes : graph[c].display = node_id

\* the inputs of a Loop Start that carry the loop state into an iteration
ResumptionInputs == {"_index", "_accumulated1", "_accumulated2"} \cup {initial_value[slot] : slot \in 1..MAX_SLOTS}

\* C17: the fragment of a continuing controller call holds one clone per
\* closure node, of the same class; an input linked to a closure node is
\* linked to that node's clone at the same output index, every other input
\* is the original's, and the clone has no other input; only the resumption
\* inputs of the cloned Loop Start are exempt.
C17_ClonesRewired ==
  \A i \in Continuing :
     /\ Cardinality(ctlLog[i].nodes) = Cardinality(ClosureOf(i))
     /\ \A c \in ctlLog[i].nodes :
          LET original_node == graph[graph[c].display]
              exempt == IF c = StartClone(i) THEN ResumptionInputs ELSE {}
          IN /\ graph[c].class_type = original_node.class_type
             /\ DOMAIN graph[c].inputs \ exempt = DOMAIN original_node.inputs \ exempt
             /\ \A k \in DOMAIN original_node.inputs \ exempt :
                  LET v == original_node.inputs[k]
                  IN IF is_link(v) /\ v.e[1].n \in ClosureOf(i)
                     THEN graph[c].inputs[k] = Link(CloneOf(i, v.e[1].n), v.e[2].n)
                     ELSE graph[c].inputs[k] = v

\* a cloned Compare: input a rewired to the cloned MathInt, input b still
\* linked to the GetLength outside the closure, the comparison copied
C17_Witness ==
  \E i \in Continuing : \E c \in ctlLog[i].nodes :
     /\ graph[c].class_type = "ComfyAngel_Compare"
     /\ graph[c].inputs["a"].e[1].n \in ctlLog[i].nodes
     /\ graph[c].inputs["a"] # graph[graph[c].display].inputs["a"]
     /\ graph[c].inputs["b"] = graph[graph[c].display].inputs["b"]
     /\ graph[c].inputs["comparison"] = LT

\* the resumption input of a Loop Start that holds the accumulator of a slot
AccumulatorInput(class_type, slot) ==
  IF class_type = "ComfyAngel_LoopStartSimple" THEN <<"_accumulated1", "_accumulated2">>[slot]
  ELSE initial_value[slot]

\* C18: in the fragment of a continuing controller call the cloned Loop Start
\* has _index set to the next index of the call and, slot for slot, its
\* accumulator input set to the accumulator the call received (a None
\* accumulator leaves the input unset), whatever the original Loop Start had
\* there.
C18_ResumptionInputsSet ==
  \A i \in Continuing :
     LET new_loop_start == graph[StartClone(i)]
     IN /\ Get(new_loop_start.inputs, "_index") = ctlLog[i].next_index
        /\ \A slot \in DOMAIN ctlLog[i].accs :
             Get(new_loop_start.inputs, AccumulatorInput(new_loop_start.class_type, slot)) = ctlLog[i].accs[slot]

\* the second continuing call of an Advanced loop replaces the accumulator
\* that the first call had set, in a slot where the user's Loop Start had an
\* initial value
C18_Witness ==
  \E i \in Continuing :
     LET new_loop_start == graph[StartClone(i)]
         loop_start == graph[BoundStart(i)]
     IN /\ new_loop_start.class_type = "ComfyAngel_LoopStartAdvanced"
        /\ ctlLog[i].next_index = IntV(2)
        /\ "initial_value0" \in DOMAIN graph[LOOP_START].inputs
        /\ "initial_value0" \in DOMAIN loop_start.inputs
        /\ new_loop_start.inputs["initial_value0"] # loop_start.inputs["initial_value0"]
        /\ new_loop_start.inputs["initial_value0"] = ctlLog[i].accs[1]

\* C19: a continuing controller call returns references to outputs 0..k-1 of
\* its own clone, in slot order, and a terminating call returns its
\* accumulators; once the run is completed, Loop End and every controller
\* of the chain have as outputs, slot for slot, the accumulators of the last
\* controller call.
C19_TailCallOutputs ==
  /\ \A i \in 1..Len(ctlLog) :
       ~ctlLog[i].raised =>
          IF i \in Continuing
          THEN ctlLog[i].result =
                 [slot \in 1..Len(ctlLog[i].accs) |-> Link(CloneOf(i, ctlLog[i].id), slot - 1)]
          ELSE ctlLog[i].result = ctlLog[i].accs
  /\ (Matched /\ Completed) =>
       LET last == ctlLog[Len(ctlLog)]
       IN /\ Len(ctlLog) = SourceLength
          /\ last.nodes = {}
          /\ outputs[LOOP_END] = last.accs
          /\ \A i \in 1..Len(ctlLog) : outputs[ctlLog[i].id] = last.accs

\* a completed run of MaxLen iterations whose two slots end up different
C19_Witness ==
  /\ Matched /\ Completed /\ Len(ctlLog) = MaxLen
  /\ outputs[LOOP_END][1] # outputs[LOOP_END][2]
  /\ ~IsNone(outputs[LOOP_END][1])
  /\ outputs[LOOP_END] = ctlLog[MaxLen].accs
  /\ ctlLog[1].result[2] = Link(CloneOf(1, ctlLog[1].id), 1)

\* the controller nodes that the host has not called yet
IsController(n) == graph[n].class_type \in {"ComfyAngel_WhileLoopEndSimple", "ComfyAngel_WhileLoopEndAdvanced"}
Uncalled == {n \in DOMAIN graph : IsController(n) /\ \A i \in 1..Len(ctlLog) : ctlLog[i].id # n}

\* one step of the host in which a controller is called
ControllerStep ==
  /\ Len(ctlLog') = Len(ctlLog) + 1
  /\ lsLog' = lsLog /\ leLog' = leLog /\ accLog' = accLog
  /\ LET call == ctlLog'[Len(ctlLog')]
     IN /\ call.id \in Uncalled
        /\ \/ call.raised /\ status' = "error"
           \/ /\ ~call.raised /\ call.nodes = {}
              /\ outputs' = (call.id :> call.accs) @@ outputs
              /\ graph' = graph /\ pending' = pending
           \/ /\ ~call.raised /\ call.nodes # {}
              /\ DOMAIN graph' = DOMAIN graph \cup call.nodes
              /\ call.nodes \cap DOMAIN graph = {}
              /\ outputs' = outputs
              /\ DOMAIN pending' = DOMAIN pending \cup {call.id}
              /\ Cardinality({c \in call.nodes : graph'[c].class_type = graph[call.id].class_type}) = 1

\* C20: a controller call is one step that calls no Loop Start, Loop End,
\* Accumulate or other controller: it either returns its accumulators, or
\* hands the host a fragment none of whose nodes has run and which holds one
\* controller; so at any point of the run of a loop at most one controller
\* is waiting to be called, whatever the iteration.
C20_ControllerReturnsInOneStep ==
  /\ [](Cardinality(Uncalled) <= 1)
  /\ [][ctlLog' # ctlLog => ControllerStep]_vars

\* the last iteration of a loop of MaxLen: every earlier controller has
\* returned a fragment and waits for its clone's outputs, one is uncalled
C20_Witness ==
  /\ Len(ctlLog) = MaxLen - 1
  /\ Cardinality(Uncalled) = 1
  /\ \A i \in 1..Len(ctlLog) : ctlLog[i].id \in DOMAIN pending
  /\ Len(lsLog) = MaxLen

\* the Loop Start nodes that a controller call cloned
IsLoopStart(n) == graph[n].class_type \in {"ComfyAngel_LoopStartSimple", "ComfyAngel_LoopStartAdvanced"}
StartClones == {n \in DOMAIN graph : IsLoopStart(n) /\ graph[n].display # 0}

\* C21: every cloned Loop Start has the items input of the user's Loop Start
\* (the same link to the same producer), the producer of the source is never
\* cloned and so runs once, and every Loop Start call fetches its item from
\* the same source.
C21_SourceBindingKept ==
  /\ \A c \in StartClones : Get(graph[c].inputs, "items") = Get(graph[Origin(c)].inputs, "items")
  /\ \A n \in DOMAIN graph : graph[n].class_type = "Source" => n = SOURCE
  /\ \A i \in Continuing : SOURCE \notin ClosureOf(i)
  /\ Matched =>
       \A k \in 1..Len(lsLog) :
          /\ ~Raised(lsLog[k].out) => lsLog[k].out[2] = SourceItems[ReportedIndex(lsLog[k]) + 1]
          /\ (Advanced /\ ~Raised(lsLog[k].out)) => lsLog[k].out[4] = IntV(SourceLength)

\* the last iteration of a loop of MaxLen: two cloned Loop Starts, both
\* linked to the source producer
C21_Witness ==
  /\ Cardinality(StartClones) = MaxLen - 1
  /\ Len(lsLog) = MaxLen
  /\ \A c \in StartClones : graph[c].inputs["items"] = Link(SOURCE, 0)
  /\ lsLog[MaxLen].id \in StartClones
  /\ lsLog[MaxLen].out[2] = SourceItems[MaxLen]

\* the length a Loop Start node computes for the items it is bound to
TotalOf(loop_start) == get_items_length(UnwrapItems(Arg(loop_start, "items")))

\* C22: the total that every Compare of the loop reads comes from a length
\* node bound to the items of the Loop Start, and it is the length that
\* every Loop Start of the loop, original or clone, computes for those items
\* (the total output of the Advanced Loop Start), a one-element list holding
\* a tensor being measured as that tensor by both.
C22_SameTotal ==
  /\ \A c \in DOMAIN graph :
       graph[c].class_type = "ComfyAngel_Compare" =>
          LET g == graph[c].inputs["b"].e[1].n
          IN /\ graph[g].class_type = "ComfyAngel_GetLength"
             /\ graph[g].inputs["items"] = graph[FlowOrigin].inputs["items"]
             /\ g \in DOMAIN outputs =>
                  /\ outputs[g] = <<IntV(SourceLength)>>
                  /\ \A n \in DOMAIN graph :
                       (IsLoopStart(n) /\ n \in DOMAIN outputs) => outputs[g] = <<IntV(TotalOf(n))>>
  /\ Matched => \A k \in 1..Len(lsLog) :
       (Advanced /\ ~Raised(lsLog[k].out)) => lsLog[k].out[4] = IntV(TotalOf(lsLog[k].id))

\* a batch of MaxLen rows that the host hands over as a one-element list: the
\* length node and the Loop Starts count MaxLen, and the loop ran MaxLen times
C22_Witness ==
  /\ Matched /\ Completed
  /\ IsList(source) /\ Len(source.e) = 1 /\ IsTensor(source.e[1]) /\ source.e[1].s[1] = MaxLen
  /\ Len(lsLog) = MaxLen
  /\ \E g \in DOMAIN outputs : graph[g].class_type = "ComfyAngel_GetLength" /\ outputs[g] = <<IntV(MaxLen)>>

\* C23: called with resumption index i over a source of length total >= 1,
\* Loop Start returns the element at min(i, total - 1) and reports i itself
\* (in the flow state, or on the index output), also when i >= total.
C23_ClampedLookupRawIndex ==
  \A k \in 1..Len(lsLog) :
     LET i == graph[lsLog[k].id].inputs["_index"].n
     IN SourceLength >= 1 =>
          /\ ~Raised(lsLog[k].out)
          /\ lsLog[k].out[2] = SourceItems[Min(i, SourceLength - 1) + 1]
          /\ ReportedIndex(lsLog[k]) = i

\* an index beyond the end: the last element is returned, the index kept
C23_Witness ==
  /\ Len(lsLog) = 1 /\ SourceLength = 2
  /\ graph[LOOP_START].inputs["_index"] = IntV(MaxLen + 1)
  /\ graph[LOOP_START].class_type = "ComfyAngel_LoopStartSimple"
  /\ ReportedIndex(lsLog[1]) = MaxLen + 1
  /\ lsLog[1].out[2] = SourceItems[2]

\* the index a Loop Start call was given, and where it looked the item up
RawIndex(call) == ReportedIndex(call)
Position(call) == Min(RawIndex(call), TotalOf(call.id) - 1)

\* C24: in a run of a loop over a source of length total >= 1 no Loop Start
\* call raises, each looks its item up at its raw index, which lies in
\* [0, total), the k-th call fetches the k-th element of the source, and a
\* completed run has fetched each element once.
C24_LookupInRange ==
  (Matched /\ SourceLength >= 1) =>
    /\ \A k \in 1..Len(lsLog) :
         /\ ~Raised(lsLog[k].out)
         /\ Position(lsLog[k]) = RawIndex(lsLog[k])
         /\ 0 <= Position(lsLog[k]) /\ Position(lsLog[k]) < TotalOf(lsLog[k].id)
         /\ Position(lsLog[k]) = k - 1
         /\ lsLog[k].out[2] = SourceItems[k]
    /\ Completed => Len(lsLog) = SourceLength

\* a completed run over a batch of MaxLen rows: the last call fetched the
\* last row at position MaxLen - 1
C24_Witness ==
  /\ Matched /\ Completed /\ SourceLength = MaxLen /\ Len(lsLog) = MaxLen
  /\ IsTensor(lsLog[MaxLen].out[2])
  /\ Position(lsLog[MaxLen]) = MaxLen - 1
  /\ lsLog[MaxLen].out[2] = SourceItems[MaxLen]

\* the two operands of a concatenation after a leading unit dimension has
\* been inserted on the one of lower rank
Promoted(existing, new_item) ==
  IF Dim(existing) < Dim(new_item) THEN <<Unsqueeze(existing), new_item>>
  ELSE IF Dim(new_item) < Dim(existing) THEN <<existing, Unsqueeze(new_item)>>
  ELSE <<existing, new_item>>

\* two tensors whose ranks differ by one and that have one trailing shape
\* once the lower rank is promoted
RanksDifferByOne(existing, new_item) ==
  /\ IsTensor(existing) /\ IsTensor(new_item)
  /\ Dim(existing) - Dim(new_item) \in {-1, 1}
  /\ Tail(Promoted(existing, new_item)[1].s) = Tail(Promoted(existing, new_item)[2].s)

\* C25: accumulate of two tensors whose ranks differ by one, whatever the
\* ranks, returns their concatenation after promotion: a tensor whose
\* leading dimension is the sum of the promoted operands' leading dimensions.
C25_RankPromotion ==
  \A k \in 1..Len(accLog) :
     RanksDifferByOne(accLog[k].existing, accLog[k].new_item) =>
        LET both == Promoted(accLog[k].existing, accLog[k].new_item)
        IN /\ ~Raised(accLog[k].out)
           /\ IsTensor(accLog[k].out[1])
           /\ accLog[k].out[1].s = <<both[1].s[1] + both[2].s[1]>> \o Tail(both[1].s)

\* how often node n occurs in the child lists of upstream
RECURSIVE CountIn(_, _)
CountIn(q, n) == IF q = <<>> THEN 0 ELSE (IF Head(q) = n THEN 1 ELSE 0) + CountIn(Tail(q), n)
RECURSIVE Occurrences(_, _, _)
Occurrences(upstream, ps, n) ==
  IF ps = {} THEN 0
  ELSE LET p == CHOOSE x \in ps : TRUE
       IN CountIn(upstream[p], n) + Occurrences(upstream, ps \ {p}, n)

WalkDone == ctlLog[1].stack = <<>>

\* C26: on every graph, cyclic or not, the walk returns; no producer is
\* explored more than once (the controller, explored first, at most once
\* more as a producer), the calls in progress are of distinct producers, and
\* the finished walk has recorded exactly the nodes that the controller
\* reaches backward, each explored node once per link under each producer:
\* the upstream that the recursive definition computes.
C26_WalkTerminates ==
  /\ <>WalkDone
  /\ [](\A n \in DOMAIN graph :
          /\ ctlLog[1].explored[n] <= (IF n = ctlLog[1].id THEN 2 ELSE 1)
          /\ ctlLog[1].explored[n] = (IF n = ctlLog[1].id THEN 1 ELSE 0) + (IF n \in DOMAIN ctlLog[1].upstream THEN 1 ELSE 0))
  /\ [](Len(ctlLog[1].stack) <= MaxCycle + 1)
  /\ [](WalkDone =>
          /\ DOMAIN ctlLog[1].upstream = Upstream(ctlLog[1].id)
          /\ ctlLog[1].upstream = explore_dependencies(ctlLog[1].id, graph, NewWalk).upstream
          /\ \A n \in DOMAIN graph :
               Occurrences(ctlLog[1].upstream, DOMAIN ctlLog[1].upstream, n) =
                 ctlLog[1].explored[n] * Cardinality(LinkInputs(n)))

\* a finished walk over a cycle through the controller and all other nodes
C26_Witness ==
  /\ WalkDone
  /\ DOMAIN ctlLog[1].upstream = 1..MaxCycle
  /\ ctlLog[1].explored[1] = 2
  /\ \A n \in 1..MaxCycle : n \in Upstream(n)

\* the resumption inputs of a cloned Loop Start that the host and the
\* controller's walk take for links: both decide with is_link
ResumptionLinks(c) == LinkInputs(c) \cap ResumptionInputs

\* C27: a resumption value (next index or folded accumulator) set on a cloned
\* Loop Start is a literal whatever its shape: none of the resumption inputs
\* of a cloned Loop Start is taken for a link by is_link, which is the test
\* of the host, of the next dependency walk and of the clone rewiring, so no
\* node id is ever read out of accumulated data.
C27_ResumptionValuesAreLiterals == \A c \in StartClones : ResumptionLinks(c) = {}

\* the controller call that runs the clone of the controller of call i
NextCall(i) == {j \in Continuing : ctlLog[j].id \in ctlLog[i].nodes}

\* the nodes the dependency walk of a call looks at, the controller included
RECURSIVE WalkedFrom(_, _)
WalkedFrom(S, depth) ==
  IF depth = 0 THEN S
  ELSE WalkedFrom(S \cup UNION {Producers(n) : n \in S \cap DOMAIN graph}, depth - 1)
Walked(j) == WalkedFrom({ctlLog[j].id}, Cardinality(DOMAIN graph))

\* C28: the closure of iteration k+1 is exactly the set of clones made at
\* iteration k, with as many nodes; the cloned Loop Start has no link to a
\* node of the iteration that made it, and the walk of iteration k+1 looks at
\* no node of iteration k.
C28_ClosureIsPreviousFragment ==
  \A i \in Continuing :
    /\ Producers(StartClone(i)) \cap ClosureOf(i) = {}
    /\ \A j \in NextCall(i) :
         /\ ClosureOf(j) = ctlLog[i].nodes
         /\ Cardinality(ctlLog[j].nodes) = Cardinality(ctlLog[i].nodes)
         /\ Walked(j) \cap ClosureOf(i) = {}

\* the nodes that the links of the clones of call i refer to, as the host
\* reads the inputs of the fragment
LinkedFrom(i) == UNION {Producers(c) : c \in ctlLog[i].nodes}

\* the nodes of the host graph that existed when call i was made
ExistedAt(i) == {n \in DOMAIN graph : \A c \in ctlLog[i].nodes : n < c}

\* the clones of call i that are controllers
Recurse(i) == {c \in ctlLog[i].nodes : IsController(c)}

\* C29: every fragment a controller submits is closed: each link of a clone
\* refers to a clone of the same fragment or to a node that existed before
\* outside the closure; no controller call fails on the lookup of a clone; and
\* the fragment has exactly one controller, the clone of the caller, which the
\* returned references name.
C29_FragmentClosed ==
  \A i \in 1..Len(ctlLog) :
    /\ ~ctlLog[i].raised
    /\ i \in Continuing =>
         /\ LinkedFrom(i) \subseteq ctlLog[i].nodes \cup (ExistedAt(i) \ ClosureOf(i))
         /\ Cardinality(Recurse(i)) = 1
         /\ \A c \in Recurse(i) :
              /\ graph[c].display = ctlLog[i].id
              /\ \A slot \in 1..Len(ctlLog[i].result) : ctlLog[i].result[slot] = Link(c, slot - 1)

\* the node that feeds slot `slot` of the first controller: the Accumulate
\* node of the slot when result<slot> is connected, the Loop Start otherwise
SlotNode(slot) == graph[ctlLog[1].id].inputs[initial_value[slot]].e[1].n

\* the values result<slot> supplied, one per iteration, in order
SlotContributions(slot) ==
  LET OfSlot(call) == AccumulateOf(call.id) = SlotNode(slot)
      calls == SelectSeq(accLog, OfSlot)
  IN [k \in 1..Len(calls) |-> calls[k].new_item]

\* the fold of a slot's contributions from its initial value
RECURSIVE FoldOf(_, _)
FoldOf(acc, items) ==
  IF items = <<>> THEN acc
  ELSE FoldOf(accumulate_results(acc, Head(items)), Tail(items))

\* C30: the slots of the Advanced loop are independent: in a completed run
\* output results_i of Loop End is the fold of the contributions of result_i
\* from initial_value_i, a function of the data of slot i alone, so that runs
\* that differ only in another slot agree on it; a slot with no contribution
\* returns its initial value.
C30_SlotsIndependent ==
  (Advanced /\ Matched /\ Completed) =>
     \A slot \in 1..MAX_SLOTS :
        outputs[LOOP_END][slot] = FoldOf(InitialAcc(slot), SlotContributions(slot))

====
